---- MODULE Spec2Model ----
(***************************************************************************)
(* Pegasus metadata tools: the parser (Tools/metadata_scanner.py), the     *)
(* serializer (Tools/metadata_writer.py) and the closure verifier          *)
(* (Tools/base.py), modelled as one state machine                          *)
(*     parse source -> dump scratch file -> parse scratch file -> compare. *)
(*                                                                         *)
(* Text is modelled character by character: a file is a sequence of lines, *)
(* a line is a TLA+ string without its "\n", a multi-line value is one     *)
(* string holding "\n".  A Python dict is an insertion-ordered sequence of *)
(* [k, v] entries; a Python value is a tagged record (None, str, list of   *)
(* str, dict of str).                                                      *)
(***************************************************************************)
EXTENDS Integers, Sequences, FiniteSets, TLC

(***************************************************************************)
(* Strings                                                                 *)
(***************************************************************************)

\* The characters of the model, in code point order (str comparison).
CodePoints == "\t\n #%,-./0123456789:ABCDEFGHIJKLMNOPQRSTUVWXYZ_abcdefghijklmnopqrstuvwxyz"

UpperCase == "ABCDEFGHIJKLMNOPQRSTUVWXYZ"

LowerCase == "abcdefghijklmnopqrstuvwxyz"

Ch(s, i) == SubSeq(s, i, i)

MinOf(S) == CHOOSE x \in S : \A y \in S : x <= y

MaxOf(S) == CHOOSE x \in S : \A y \in S : y <= x

\* str.strip() / lstrip() / rstrip() without argument strip whitespace.
IsSpace(c) == c \in {" ", "\t", "\n"}

IsNewline(c) == c = "\n"

\* The first position from i on, and the last position up to i, whose
\* character is not stripped; Len(s) + 1 and 0 when there is none.
RECURSIVE SkipSpaces(_, _)
SkipSpaces(s, i) ==
    IF i <= Len(s) /\ IsSpace(Ch(s, i)) THEN SkipSpaces(s, i + 1) ELSE i

RECURSIVE SkipSpacesBack(_, _)
SkipSpacesBack(s, i) ==
    IF i >= 1 /\ IsSpace(Ch(s, i)) THEN SkipSpacesBack(s, i - 1) ELSE i

RECURSIVE SkipNewlines(_, _)
SkipNewlines(s, i) ==
    IF i <= Len(s) /\ IsNewline(Ch(s, i)) THEN SkipNewlines(s, i + 1) ELSE i

RECURSIVE SkipNewlinesBack(_, _)
SkipNewlinesBack(s, i) ==
    IF i >= 1 /\ IsNewline(Ch(s, i)) THEN SkipNewlinesBack(s, i - 1) ELSE i

LStrip(s) == SubSeq(s, SkipSpaces(s, 1), Len(s))

RStrip(s) == SubSeq(s, 1, SkipSpacesBack(s, Len(s)))

Strip(s) == LStrip(RStrip(s))

\* str.rstrip("\n") and str.strip("\n")
RStripNL(s) == SubSeq(s, 1, SkipNewlinesBack(s, Len(s)))

StripNL(s) == RStripNL(SubSeq(s, SkipNewlines(s, 1), Len(s)))

StartsWith(s, p) == Len(s) >= Len(p) /\ SubSeq(s, 1, Len(p)) = p

\* str.find(c) + 1 for a one-character c: the first position, 0 when absent.
RECURSIVE FindFrom(_, _, _)
FindFrom(s, c, i) ==
    IF i > Len(s) THEN 0
    ELSE IF Ch(s, i) = c THEN i
    ELSE FindFrom(s, c, i + 1)

Find(s, c) == FindFrom(s, c, 1)

\* str.split(c) for a one-character separator.
RECURSIVE Split(_, _)
Split(s, c) ==
    LET i == Find(s, c)
    IN  IF i = 0 THEN <<s>>
        ELSE <<SubSeq(s, 1, i - 1)>> \o Split(SubSeq(s, i + 1, Len(s)), c)

\* sep.join(parts)
RECURSIVE Join(_, _)
Join(parts, sep) ==
    IF parts = <<>> THEN ""
    ELSE IF Len(parts) = 1 THEN parts[1]
    ELSE parts[1] \o sep \o Join(Tail(parts), sep)

\* str.splitlines(): no trailing empty line, "" has no line.
SplitLines(s) ==
    LET raw == Split(s, "\n")
    IN  IF raw[Len(raw)] = "" THEN SubSeq(raw, 1, Len(raw) - 1) ELSE raw

\* str.lower()
LowerChar(c) ==
    LET at == Find(UpperCase, c)
    IN  IF at = 0 THEN c ELSE Ch(LowerCase, at)

RECURSIVE Lower(_)
Lower(s) == IF s = "" THEN "" ELSE LowerChar(Ch(s, 1)) \o Lower(Tail(s))

\* str.replace(a, b) for one-character a and b.
RECURSIVE Replace(_, _, _)
Replace(s, a, b) ==
    IF s = "" THEN ""
    ELSE (IF Ch(s, 1) = a THEN b ELSE Ch(s, 1)) \o Replace(Tail(s), a, b)

\* The characters of a string, as iterating over a str yields them.
CharsOf(s) == [i \in 1..Len(s) |-> Ch(s, i)]

\* [x.strip() for x in s.split(",") if x.strip()]
RECURSIVE StripNonEmpty(_)
StripNonEmpty(parts) ==
    IF parts = <<>> THEN <<>>
    ELSE (IF Strip(parts[1]) = "" THEN <<>> ELSE <<Strip(parts[1])>>)
         \o StripNonEmpty(Tail(parts))

SplitCommaList(s) == StripNonEmpty(Split(s, ","))

\* Code point of a character, and the order of str comparison.
Ord(c) == Find(CodePoints, c)

RECURSIVE StrLess(_, _)
StrLess(a, b) ==
    IF b = "" THEN FALSE
    ELSE IF a = "" THEN TRUE
    ELSE IF Ch(a, 1) = Ch(b, 1) THEN StrLess(Tail(a), Tail(b))
    ELSE Ord(Ch(a, 1)) < Ord(Ch(b, 1))

(***************************************************************************)
(* Python values and dicts                                                 *)
(***************************************************************************)

NoneV == [t |-> "none", s |-> "", l |-> <<>>, d |-> <<>>]

Str(x) == [t |-> "str", s |-> x, l |-> <<>>, d |-> <<>>]

Lst(q) == [t |-> "list", s |-> "", l |-> q, d |-> <<>>]

\* A dict of str values: d is its sequence of [k, v] entries.
Dct(e) == [t |-> "dict", s |-> "", l |-> <<>>, d |-> e]

IsStr(v) == v.t = "str"

IsList(v) == v.t = "list"

IsDict(v) == v.t = "dict"

\* bool(v)
Truthy(v) ==
    CASE v.t = "none" -> FALSE
      [] v.t = "str"  -> v.s # ""
      [] v.t = "list" -> v.l # <<>>
      [] v.t = "dict" -> v.d # <<>>

\* The position of key k in d, 0 when d has no such key.
RECURSIVE IndexFrom(_, _, _)
IndexFrom(d, k, i) ==
    IF i > Len(d) THEN 0
    ELSE IF d[i].k = k THEN i
    ELSE IndexFrom(d, k, i + 1)

IndexOf(d, k) == IndexFrom(d, k, 1)

\* k in d
HasKey(d, k) == IndexOf(d, k) # 0

\* d.get(k)
Get(d, k) == IF HasKey(d, k) THEN d[IndexOf(d, k)].v ELSE NoneV

\* d[k] = v : an existing key keeps its place, a new one goes last.
Put(d, k, v) ==
    IF HasKey(d, k) THEN [d EXCEPT ![IndexOf(d, k)].v = v]
    ELSE Append(d, [k |-> k, v |-> v])

\* d.pop(k, None)
Pop(d, k) ==
    IF HasKey(d, k)
    THEN LET i == IndexOf(d, k) IN SubSeq(d, 1, i - 1) \o SubSeq(d, i + 1, Len(d))
    ELSE d

Keys(d) == {d[i].k : i \in 1..Len(d)}

\* d1 == d2 for dicts: the same keys with equal values, in any order.
DictEq(d1, d2) ==
    /\ Keys(d1) = Keys(d2)
    /\ \A k \in Keys(d1) : Get(d1, k) = Get(d2, k)

\* s[1:]
Rest(q) == IF q = <<>> THEN <<>> ELSE Tail(q)

RECURSIVE Flatten(_)
Flatten(qq) == IF qq = <<>> THEN <<>> ELSE qq[1] \o Flatten(Tail(qq))

(***************************************************************************)
(* Parser: Tools/metadata_scanner.py                                       *)
(***************************************************************************)

\* current_key is None or one of the multi-line key names: None is "".
NoKey == ""

MultiLineKeys == {"launch", "description", "ignore-files", "extension", "extensions", "files"}

\* text with a leading "<key>:" cut off and the rest left-stripped.
CutPrefix(text, prefix) ==
    IF StartsWith(text, prefix)
    THEN LStrip(SubSeq(text, Len(prefix) + 1, Len(text)))
    ELSE text

\* [s for ln in buf if (s := ln.strip()) and not s.lower().startswith("files:")]
RECURSIVE FilesLines(_)
FilesLines(buf) ==
    IF buf = <<>> THEN <<>>
    ELSE LET s == Strip(buf[1])
         IN  (IF s = "" \/ StartsWith(Lower(s), "files:") THEN <<>> ELSE <<s>>)
             \o FilesLines(Tail(buf))

\* The extensions of a block: buf[0] is the "extension:" line, every later
\* line holds one extension or several, comma-separated.
BlockExtensionsKeepFirst(buf) ==
    Flatten([i \in 1..Len(buf) |-> SplitCommaList(buf[i])])

BlockExtensions(buf) ==
    LET lines == IF Len(buf) > 1 THEN Rest(buf) ELSE <<>>
    IN  Flatten([i \in 1..Len(lines) |-> SplitCommaList(lines[i])])

\* _finalize_multiline_prop: the target dict after the commit; err is the
\* exception raised, "" when none.
FinalizeMultilineProp(target, key, buf, is_header) ==
    LET text == RStripNL(Join(buf, "\n"))
        same(d) == [err |-> "", d |-> d]
    IN
    IF key = NoKey THEN same(target)
    ELSE IF is_header THEN
        CASE key = "launch" ->
                same(Put(target, "launch_block", Str(CutPrefix(text, "launch:"))))
          [] key = "sort-by" ->
                same(Put(target, "default_sort_by", Str(text)))
          [] key = "ignore-files" ->
                same(Put(target, "ignore_files", Lst(StripNonEmpty(Rest(buf)))))
          [] key \in {"extension", "extensions"} ->
                same(Put(target, "extensions", Lst(BlockExtensions(buf))))
          [] OTHER ->
                same(Put(target, Replace(key, "-", "_"), Str(text)))
    ELSE
        CASE key = "launch" ->
                same(Put(target, "launch_block", Str(CutPrefix(text, "launch:"))))
          [] key = "sort-by" ->
                same(Put(target, "sort_by", Str(text)))
          [] key = "description" ->
                same(Put(target, "description", Str(CutPrefix(text, "description:"))))
          [] key = "files" ->
                \* roms = target.setdefault("roms", []); roms.extend(lines)
                LET roms == IF HasKey(target, "roms") THEN Get(target, "roms") ELSE Lst(<<>>)
                IN  IF IsList(roms)
                    THEN same(Put(target, "roms", Lst(roms.l \o FilesLines(buf))))
                    ELSE [err |-> "AttributeError", d |-> Put(target, "roms", roms)]
          [] OTHER ->
                same(Put(target, Replace(key, "-", "_"), Str(text)))

\* _ensure_default_assets
EnsureDefaultAssets(game) ==
    LET title == IF Truthy(Get(game, "game")) THEN Get(game, "game") ELSE Get(game, "title")
    IN  IF HasKey(game, "assets") /\ Truthy(Get(game, "assets")) THEN game
        ELSE IF ~Truthy(title) THEN game
        ELSE Put(game, "assets", Dct(<<
                [k |-> "box_front", v |-> "media/" \o title.s \o "/boxfront.png"],
                [k |-> "logo",      v |-> "media/" \o title.s \o "/logo.png"],
                [k |-> "video",     v |-> "media/" \o title.s \o "/video.mp4"] >>))

\* The filter left out: every entry is kept.
FilterRomsKeepAll(roms) == roms

\* [r for r in roms if isinstance(r, str) and r.strip()
\*                     and not r.strip().lower().startswith("files:")]
RECURSIVE FilterRoms(_)
FilterRoms(roms) ==
    IF roms = <<>> THEN <<>>
    ELSE (IF Strip(roms[1]) # "" /\ ~StartsWith(Lower(Strip(roms[1])), "files:")
          THEN <<roms[1]>> ELSE <<>>) \o FilterRoms(Tail(roms))

\* What iterating over game.get("roms", []) yields: the entries of a list,
\* the characters of a str.
IterRoms(game) ==
    LET v == Get(game, "roms")
    IN  CASE ~HasKey(game, "roms") -> <<>>
          [] IsList(v) -> v.l
          [] IsStr(v)  -> CharsOf(v.s)
          [] OTHER     -> <<>>

\* The reconciliation of roms and file when a game block ends
\* (at the next game: line, or at the end of the input).
FinalizeGame(game) ==
    LET filtered == FilterRoms(IterRoms(game))
        fval == Get(game, "file")
        g1   == IF IsStr(fval) /\ StartsWith(Lower(Strip(fval.s)), "files:")
                THEN Pop(game, "file") ELSE game
        fpath == Get(g1, "file")
        roms == IF filtered = <<>> /\ IsStr(fpath) /\ Strip(fpath.s) # ""
                THEN <<fpath.s>> ELSE filtered
        g2   == Put(g1, "roms", Lst(roms))
        g3   == IF roms # <<>> /\ (~HasKey(g2, "file") \/ ~Truthy(Get(g2, "file")))
                THEN Put(g2, "file", Str(roms[1])) ELSE g2
    IN  EnsureDefaultAssets(g3)

\* current_game is None, or a dict.
NoGame == [none |-> TRUE, d |-> <<>>]

SomeGame(d) == [none |-> FALSE, d |-> d]

\* The local variables of parse_pegasus_metadata before the first line.
ParserStart ==
    [header |-> <<>>, games |-> <<>>, current_game |-> NoGame, in_header |-> TRUE,
     current_key |-> NoKey, buf |-> <<>>, err |-> ""]

\* flush_multiline
FlushMultilineIntoHeader(c) ==
    LET r == FinalizeMultilineProp(c.header, c.current_key, c.buf, TRUE)
    IN  [c EXCEPT !.header = r.d, !.current_key = NoKey, !.buf = <<>>, !.err = r.err]

FlushMultiline(c) ==
    IF c.in_header
    THEN LET r == FinalizeMultilineProp(c.header, c.current_key, c.buf, TRUE)
         IN  [c EXCEPT !.header = r.d, !.current_key = NoKey, !.buf = <<>>, !.err = r.err]
    ELSE IF ~c.current_game.none
    THEN LET r == FinalizeMultilineProp(c.current_game.d, c.current_key, c.buf, FALSE)
         IN  [c EXCEPT !.current_game = SomeGame(r.d), !.current_key = NoKey,
                       !.buf = <<>>, !.err = r.err]
    ELSE [c EXCEPT !.current_key = NoKey, !.buf = <<>>]

\* The body of  if not line.startswith(" "):  after flush_multiline(), for a
\* line that holds a colon.
ParseKeyLine(c, line) ==
    LET colon == Find(line, ":")
        key   == Strip(SubSeq(line, 1, colon - 1))
        value == Strip(SubSeq(line, colon + 1, Len(line)))
    IN
    CASE key = "game" ->
            [c EXCEPT !.in_header = FALSE,
                      !.games = IF c.current_game.none THEN @
                                ELSE Append(@, FinalizeGame(c.current_game.d)),
                      !.current_game = SomeGame(<<[k |-> "game", v |-> Str(value)]>>),
                      !.current_key = NoKey,
                      !.buf = <<>>]
      [] key = "file" ->
            IF c.in_header \/ c.current_game.none THEN c
            ELSE \* roms = current_game.setdefault("roms", []); roms.append(value)
                 LET g    == c.current_game.d
                     roms == IF HasKey(g, "roms") THEN Get(g, "roms") ELSE Lst(<<>>)
                 IN  IF IsList(roms)
                     THEN [c EXCEPT !.current_game =
                                        SomeGame(Put(g, "roms", Lst(Append(roms.l, value))))]
                     ELSE [c EXCEPT !.err = "AttributeError"]
      [] key \in MultiLineKeys ->
            IF key = "files" THEN [c EXCEPT !.current_key = key, !.buf = <<>>]
            ELSE IF key \in {"extension", "extensions"} /\ c.in_header
            THEN IF value # ""
                 THEN [c EXCEPT !.header = Put(@, "extensions", Lst(SplitCommaList(value))),
                                !.current_key = NoKey,
                                !.buf = <<>>]
                 ELSE [c EXCEPT !.current_key = key, !.buf = <<key \o ":">>]
            ELSE [c EXCEPT !.current_key = key,
                           !.buf = IF value # "" THEN <<key \o ": " \o value>>
                                   ELSE <<key \o ":">>]
      [] OTHER ->
            IF c.in_header
            THEN [c EXCEPT !.header =
                     IF key = "sort-by" THEN Put(@, "default_sort_by", Str(value))
                     ELSE Put(@, Replace(key, "-", "_"), Str(value))]
            ELSE IF c.current_game.none THEN c
            ELSE [c EXCEPT !.current_game =
                     IF key = "sort-by" THEN SomeGame(Put(@.d, "sort_by", Str(value)))
                     ELSE SomeGame(Put(@.d, Replace(key, "-", "_"), Str(value)))]

\* One turn of  for raw_line in f:  on the line's text without its "\n".
ParseLineStepBlankEnds(c, line) ==
    IF Strip(line) = "" THEN FlushMultiline(c)
    ELSE IF StartsWith(LStrip(line), "#") THEN c
    ELSE IF ~StartsWith(line, " ")
    THEN LET f == FlushMultiline(c)
         IN  IF f.err # "" THEN f
             ELSE IF Find(line, ":") = 0 THEN f
             ELSE ParseKeyLine(f, line)
    ELSE IF c.current_key # NoKey
    THEN [c EXCEPT !.buf = Append(@, line)]
    ELSE c

ParseLineStep(c, line) ==
    IF Strip(line) = "" \/ StartsWith(LStrip(line), "#") THEN c
    ELSE IF ~StartsWith(line, " ")
    THEN LET f == FlushMultiline(c)
         IN  IF f.err # "" THEN f
             ELSE IF Find(line, ":") = 0 THEN f
             ELSE ParseKeyLine(f, line)
    ELSE IF c.current_key # NoKey
    THEN [c EXCEPT !.buf = Append(@, line)]
    ELSE c

\* What follows the loop: the last flush, the last game, default_sort_by.
ParseFinishDropLast(c) ==
    LET f == FlushMultiline(c)
    IN  IF f.err # "" THEN f
        ELSE [f EXCEPT !.header = IF HasKey(@, "default_sort_by") THEN @
                                  ELSE Put(@, "default_sort_by", NoneV)]

ParseFinish(c) ==
    LET f == FlushMultiline(c)
    IN  IF f.err # "" THEN f
        ELSE [f EXCEPT !.games = IF f.current_game.none THEN @
                                 ELSE Append(@, FinalizeGame(f.current_game.d)),
                       !.header = IF HasKey(@, "default_sort_by") THEN @
                                  ELSE Put(@, "default_sort_by", NoneV)]

\* parse_pegasus_metadata on a file of these lines, in one piece.
RECURSIVE ParseFrom(_, _)
ParseFrom(c, lines) ==
    IF c.err # "" THEN c
    ELSE IF lines = <<>> THEN ParseFinish(c)
    ELSE ParseFrom(ParseLineStep(c, lines[1]), Tail(lines))

ParsePegasusMetadata(lines) == ParseFrom(ParserStart, lines)

(***************************************************************************)
(* Launch normalizer: normalize_launch_block and extract_libretro_core of  *)
(* Tools/metadata_scanner.py, and the per-game launch override of          *)
(* Tools/export_to_json.py.                                                *)
(***************************************************************************)

\* The first and the last position in lo..hi at which p occurs in s, 0
\* when there is none (the range is halved, to keep the evaluation shallow).
RECURSIVE FirstHit(_, _, _, _)
FirstHit(s, p, lo, hi) ==
    IF lo > hi THEN 0
    ELSE IF lo = hi
    THEN IF lo + Len(p) - 1 <= Len(s) /\ SubSeq(s, lo, lo + Len(p) - 1) = p THEN lo ELSE 0
    ELSE LET mid  == (lo + hi) \div 2
             left == FirstHit(s, p, lo, mid)
         IN  IF left # 0 THEN left ELSE FirstHit(s, p, mid + 1, hi)

RECURSIVE LastHit(_, _, _, _)
LastHit(s, p, lo, hi) ==
    IF lo > hi THEN 0
    ELSE IF lo = hi
    THEN IF lo + Len(p) - 1 <= Len(s) /\ SubSeq(s, lo, lo + Len(p) - 1) = p THEN lo ELSE 0
    ELSE LET mid   == (lo + hi) \div 2
             right == LastHit(s, p, mid + 1, hi)
         IN  IF right # 0 THEN right ELSE LastHit(s, p, lo, mid)

\* str.find(p, i - 1) + 1 and str.rfind(p) + 1
FindSubFrom(s, p, i) == FirstHit(s, p, i, Len(s))

RFindSub(s, p) == LastHit(s, p, 1, Len(s))

\* p in s
Contains(s, p) == FindSubFrom(s, p, 1) # 0

\* Classes of characters: whitespace, anything else, and what ends the name
\* of a core ("/" or whitespace).
InClass(c, class) ==
    CASE class = "space" -> IsSpace(c)
      [] class = "word"  -> ~IsSpace(c)
      [] class = "stop"  -> c = "/" \/ IsSpace(c)

\* The first position in lo..hi whose character is in the class, 0 when
\* there is none.
RECURSIVE FirstOf(_, _, _, _)
FirstOf(s, class, lo, hi) ==
    IF lo > hi THEN 0
    ELSE IF lo = hi THEN (IF InClass(Ch(s, lo), class) THEN lo ELSE 0)
    ELSE LET mid  == (lo + hi) \div 2
             left == FirstOf(s, class, lo, mid)
         IN  IF left # 0 THEN left ELSE FirstOf(s, class, mid + 1, hi)

\* shlex.split(text, posix=False): whitespace separates the tokens; a token
\* that starts with a quote runs to the next such quote, which ends it; a
\* quote inside a word is an ordinary character.  err is the ValueError
\* "No closing quotation".
ShlexQuotes == {"\"", "'"}

RECURSIVE ShlexFrom(_, _, _)
ShlexFrom(s, i, tokens) ==
    LET start == FirstOf(s, "word", i, Len(s))
    IN  IF start = 0 THEN [err |-> FALSE, tokens |-> tokens]
        ELSE IF Ch(s, start) \in ShlexQuotes
        THEN LET close == FirstHit(s, Ch(s, start), start + 1, Len(s))
             IN  IF close = 0 THEN [err |-> TRUE, tokens |-> <<>>]
                 ELSE ShlexFrom(s, close + 1, Append(tokens, SubSeq(s, start, close)))
        ELSE LET space == FirstOf(s, "space", start, Len(s))
                 stop  == IF space = 0 THEN Len(s) + 1 ELSE space
             IN  ShlexFrom(s, stop, Append(tokens, SubSeq(s, start, stop - 1)))

ShlexSplit(text) == ShlexFrom(text, 1, <<>>)

\* os.path.basename
Basename(t) == SubSeq(t, RFindSub(t, "/") + 1, Len(t))

\* The end of the longest run of characters other than "/" and whitespace
\* that starts at i: the position of its last character, i - 1 when empty.
RunEnd(s, i) ==
    LET stop == FirstOf(s, "stop", i, Len(s))
    IN  IF stop = 0 THEN Len(s) ELSE stop - 1

CoreSuffix == "_libretro_android.so"

\* group(1) of the match of /cores/([^/\s]+_libretro_android\.so) at the
\* "/cores/" at position at: the run of characters after it, up to the end
\* of the last suffix in it that has a character before it; "" when the
\* pattern does not match there.
CoreAt(s, at) ==
    LET run  == SubSeq(s, at + Len("/cores/"), RunEnd(s, at + Len("/cores/")))
        last == RFindSub(run, CoreSuffix)
    IN  IF last >= 2 THEN SubSeq(run, 1, last + Len(CoreSuffix) - 1) ELSE ""

\* The first match from position i on.
RECURSIVE CoreFrom(_, _)
CoreFrom(s, i) ==
    LET at == FindSubFrom(s, "/cores/", i)
    IN  IF at = 0 THEN ""
        ELSE IF CoreAt(s, at) # "" THEN CoreAt(s, at)
        ELSE CoreFrom(s, at + 1)

\* extract_libretro_core: None is "".
ExtractLibretroCore(launch_block) == CoreFrom(launch_block, 1)

\* The token holds one of the spellings of the ROM placeholder.
HasRomPlaceholder(t) ==
    Contains(t, "%ROM%") \/ Contains(t, "%rom%") \/ Contains(t, "{file}")
        \/ Contains(t, "%file%")

\* The last token that holds a placeholder is taken.
RomIndexLast(tokens) ==
    LET hits == {i \in 1..Len(tokens) : HasRomPlaceholder(tokens[i])}
    IN  IF hits = {} THEN -1 ELSE MaxOf(hits) - 1

\* The zero-based index of the first token that holds a placeholder; -1 is
\* None.
RomIndex(tokens) ==
    LET hits == {i \in 1..Len(tokens) : HasRomPlaceholder(tokens[i])}
    IN  IF hits = {} THEN -1 ELSE MinOf(hits) - 1

\* The first token whose base name, lowered, holds "retroarch"; "" is none.
RetroarchBinary(tokens) ==
    LET hits == {i \in 1..Len(tokens) : Contains(Lower(Basename(tokens[i])), "retroarch")}
    IN  IF hits = {} THEN "" ELSE tokens[MinOf(hits)]

\* A failed tokenization is passed over: the text is scanned all the same.
NormalizeLaunchBlockNoReturn(launch_block) ==
    LET text == Strip(launch_block)
        core == ExtractLibretroCore(text)
    IN  [keys |-> {"raw", "tokens"} \cup (IF core # "" THEN {"core"} ELSE {}),
         raw |-> text, tokens |-> <<>>, emulator |-> "", binary |-> "",
         core |-> core, rom_arg_index |-> -1]

\* normalize_launch_block: keys is the set of the keys of the dict returned;
\* the field of a key that is not set holds "", <<>> or -1.
NormalizeLaunchBlock(launch_block) ==
    LET text   == Strip(launch_block)
        split  == ShlexSplit(text)
        tokens == split.tokens
        binary == RetroarchBinary(tokens)
        core   == ExtractLibretroCore(text)
        index  == RomIndex(tokens)
        none   == [keys |-> {"raw"}, raw |-> text, tokens |-> <<>>, emulator |-> "",
                   binary |-> "", core |-> "", rom_arg_index |-> -1]
    IN  IF text = "" THEN none
        ELSE IF split.err THEN [none EXCEPT !.keys = {"raw", "tokens"}]
        ELSE [keys |-> {"raw", "tokens"}
                       \cup (IF binary # "" THEN {"emulator", "binary"} ELSE {})
                       \cup (IF core # "" THEN {"core"} ELSE {})
                       \cup (IF index # -1 THEN {"rom_arg_index"} ELSE {}),
              raw |-> text, tokens |-> tokens,
              emulator |-> IF binary # "" THEN "retroarch" ELSE "",
              binary |-> binary, core |-> core, rom_arg_index |-> index]

\* The launch part of _build_game_json: the launch_override, launch_info
\* and core_override entries of the exported game; has_override tells
\* whether the first two are set, core_override is "" when it is not set.
BuildGameJsonLaunch(header, game) ==
    LET game_launch     == Get(game, "launch_block")
        default_launch  == Get(header, "launch_block")
        game_launch_str == IF Truthy(game_launch) THEN Strip(game_launch.s) ELSE ""
        info            == NormalizeLaunchBlock(game_launch_str)
    IN  IF game_launch_str # "" /\ Str(game_launch_str) # default_launch
        THEN [has_override |-> TRUE, launch_info |-> info, core_override |-> info.core]
        ELSE [has_override |-> FALSE, launch_info |-> NormalizeLaunchBlock(""),
              core_override |-> ""]

\* The rom_hashes loop of _build_game_json raises for a game with ROM paths
\* when rom_root is None: Path(None) is a TypeError.
BuildGameJsonRaises(game, rom_root) == rom_root = NoneV /\ IterRoms(game) # <<>>

\* The list of exported games of export_platform_to_json: the exception that
\* ends the first _build_game_json that raises ("" when none does), and the
\* launch entries of the games when they are all built.
ExportPlatformGames(header, games, rom_root) ==
    IF \E i \in 1..Len(games) : BuildGameJsonRaises(games[i], rom_root)
    THEN [err |-> "TypeError", games |-> <<>>]
    ELSE [err |-> "",
          games |-> [i \in 1..Len(games) |-> BuildGameJsonLaunch(header, games[i])]]

(***************************************************************************)
(* Serializer: Tools/metadata_writer.py.  Each operator is the text its    *)
(* function writes to the file.                                            *)
(***************************************************************************)

\* "".join(f(x) for x in q)
RECURSIVE ConcatAll(_)
ConcatAll(q) == IF q = <<>> THEN "" ELSE q[1] \o ConcatAll(Tail(q))

\* One two-space-indented line per entry.
IndentedLines(q) == ConcatAll([i \in 1..Len(q) |-> "  " \o q[i] \o "\n"])

\* A (possibly multi-line) text under a key: one line, or a block.
KeyedText(key, text) ==
    LET lines == SplitLines(text)
    IN  IF Len(lines) = 1 THEN key \o ": " \o lines[1] \o "\n"
        ELSE key \o ":\n" \o IndentedLines(lines)

\* What  for x in v  yields for a list or a str.
IterItems(v) ==
    CASE IsList(v) -> v.l
      [] IsStr(v)  -> CharsOf(v.s)
      [] OTHER     -> <<>>

\* _write_header
WriteHeader(header) ==
    LET collection      == Get(header, "collection")
        default_sort_by == Get(header, "default_sort_by")
        launch_block    == Get(header, "launch_block")
        ignore_files    == IF Truthy(Get(header, "ignore_files"))
                           THEN IterItems(Get(header, "ignore_files")) ELSE <<>>
        raw_exts        == Get(header, "extensions")
        exts            == IF ~Truthy(raw_exts) THEN <<>>
                           ELSE IF IsStr(raw_exts) THEN SplitCommaList(raw_exts.s)
                           ELSE IterItems(raw_exts)
    IN  (IF Truthy(collection) THEN "collection: " \o collection.s \o "\n" ELSE "")
        \o (IF Truthy(default_sort_by) THEN "sort-by: " \o default_sort_by.s \o "\n" ELSE "")
        \o (IF Truthy(launch_block) THEN KeyedText("launch", launch_block.s) ELSE "")
        \o (IF ignore_files # <<>> THEN "ignore-files:\n" \o IndentedLines(ignore_files) ELSE "")
        \o (IF exts # <<>> THEN "extension:\n" \o IndentedLines(exts) \o "\n" ELSE "")

\* isinstance(v, list) and len(v) > 1
IsLongList(v) == IsList(v) /\ Len(v.l) > 1

\* _is_multi_disc
IsMultiDisc(game) == IsLongList(Get(game, "roms")) \/ IsLongList(Get(game, "files"))

\* PurePosixPath(p).parts
PathParts(p) ==
    LET segs  == Split(p, "/")
        comps == Flatten([i \in 1..Len(segs) |->
                            IF segs[i] \in {"", "."} THEN <<>> ELSE <<segs[i]>>])
        root  == IF StartsWith(p, "//") /\ ~StartsWith(p, "///") THEN <<"//">>
                 ELSE IF StartsWith(p, "/") THEN <<"/">>
                 ELSE <<>>
    IN  root \o comps

\* _infer_media_base_from_multifiles: None is "".
InferMediaBaseFromMultifiles(game) ==
    LET roms  == Get(game, "roms")
        lst   == IF IsLongList(roms) THEN roms ELSE Get(game, "files")
        parts == PathParts(Strip(lst.l[1]))
    IN  IF ~IsLongList(lst) THEN ""
        ELSE IF Strip(lst.l[1]) = "" THEN ""
        ELSE IF Len(parts) >= 2 THEN parts[1]
        ELSE ""

\* Entries of a dict of str: membership, lookup and insertion.
HasSub(a, k) == IndexOf(a, k) # 0

GetSub(a, k) == IF HasSub(a, k) THEN a[IndexOf(a, k)].v ELSE ""

\* The (sub, value) pairs the legacy flat keys "assets.<sub>" add to assets.
RECURSIVE AddFlatAssets(_, _)
AddFlatAssets(assets, entries) ==
    IF entries = <<>> THEN assets
    ELSE LET e   == entries[1]
             sub == Strip(SubSeq(e.k, Len("assets.") + 1, Len(e.k)))
             add == /\ StartsWith(e.k, "assets.")
                    /\ IsStr(e.v) /\ Strip(e.v.s) # ""
                    /\ sub # "" /\ ~HasSub(assets, sub)
         IN  AddFlatAssets(IF add THEN Append(assets, [k |-> sub, v |-> Strip(e.v.s)])
                           ELSE assets,
                           Tail(entries))

\* _collect_assets
CollectAssets(game) ==
    LET a     == Get(game, "assets")
        own   == IF IsDict(a)
                 THEN Flatten([i \in 1..Len(a.d) |->
                                 IF Strip(a.d[i].v) # ""
                                 THEN <<[k |-> a.d[i].k, v |-> Strip(a.d[i].v)]>>
                                 ELSE <<>>])
                 ELSE <<>>
    IN  AddFlatAssets(own, game)

\* _rewrite_media_path_keep_filename
RewriteMediaPathKeepFilename(v, media_base) ==
    LET parts == PathParts(v)
        name  == parts[Len(parts)]
    IN  IF Len(parts) >= 2 /\ parts[1] = "media"
        THEN \* str(PurePosixPath("media") / media_base / name): a root drops "media"
             IF media_base \in {"/", "//"} THEN media_base \o name
             ELSE "media/" \o media_base \o "/" \o name
        ELSE v

\* _emit_assets_lines
EmitAssetsLines(game) ==
    LET media_base == InferMediaBaseFromMultifiles(game)
        found      == CollectAssets(game)
        assets     == IF found = <<>> /\ media_base # ""
                      THEN << [k |-> "box_front", v |-> "media/" \o media_base \o "/boxFront.png"],
                              [k |-> "logo",      v |-> "media/" \o media_base \o "/logo.png"],
                              [k |-> "video",     v |-> "media/" \o media_base \o "/video.mp4"] >>
                      ELSE found
        moved      == [i \in 1..Len(assets) |->
                         IF media_base # "" /\ Strip(assets[i].v) # ""
                         THEN [assets[i] EXCEPT !.v = RewriteMediaPathKeepFilename(@, media_base)]
                         ELSE assets[i]]
        order      == <<"box_front", "logo", "video">>
    IN  IF ~IsMultiDisc(game) THEN ""
        ELSE ConcatAll([i \in 1..Len(order) |->
                          IF Strip(GetSub(moved, order[i])) # ""
                          THEN "assets." \o order[i] \o ": " \o GetSub(moved, order[i]) \o "\n"
                          ELSE ""])

\* The raw override _emit_launch_block picks: "" when there is none.
LaunchRaw(game) ==
    LET keys == <<"launch_override", "launch_block", "launch">>
        hits == {i \in 1..Len(keys) :
                    IsStr(Get(game, keys[i])) /\ Strip(Get(game, keys[i]).s) # ""}
    IN  IF hits # {} THEN StripNL(Get(game, keys[MinOf(hits)]).s)
        ELSE IF IsList(Get(game, "launch")) /\ Get(game, "launch").l # <<>>
        THEN StripNL(Join(Get(game, "launch").l, "\n"))
        ELSE ""

\* The early return on an empty override left out.
EmitLaunchBlockUnguarded(game) ==
    LET raw   == LaunchRaw(game)
        lines == SplitLines(raw)
    IN  IF Len(lines) = 1 THEN "launch: " \o RStrip(lines[1]) \o "\n"
        ELSE "launch:\n" \o IndentedLines([i \in 1..Len(lines) |-> RStrip(lines[i])])

\* _emit_launch_block
EmitLaunchBlock(game) ==
    LET raw   == LaunchRaw(game)
        lines == SplitLines(raw)
    IN  IF raw = "" THEN ""
        ELSE IF Len(lines) = 1 THEN "launch: " \o RStrip(lines[1]) \o "\n"
        ELSE "launch:\n" \o IndentedLines([i \in 1..Len(lines) |-> RStrip(lines[i])])

\* game.get("game") or game.get("title")
TitleOf(game) ==
    IF Truthy(Get(game, "game")) THEN Get(game, "game") ELSE Get(game, "title")

\* Only the first path is written, whatever their number.
WriteRomsFirstOnly(game) ==
    LET roms == IF Truthy(Get(game, "roms")) THEN IterItems(Get(game, "roms")) ELSE <<>>
    IN  IF roms = <<>> THEN "" ELSE "file: " \o roms[1] \o "\n"

\* The file: line or files: block of _write_game.
WriteRoms(game) ==
    LET roms == IF Truthy(Get(game, "roms")) THEN IterItems(Get(game, "roms")) ELSE <<>>
    IN  IF roms = <<>> THEN ""
        ELSE IF Len(roms) = 1 THEN "file: " \o roms[1] \o "\n"
        ELSE "files:\n" \o IndentedLines(roms)

\* _write_game
WriteGame(game) ==
    LET title     == TitleOf(game)
        sort_by   == Get(game, "sort_by")
        developer == Get(game, "developer")
        desc      == Get(game, "description")
    IN  IF ~Truthy(title) THEN ""
        ELSE "game: " \o title.s \o "\n"
             \o WriteRoms(game)
             \o (IF Truthy(sort_by) THEN "sort-by: " \o sort_by.s \o "\n" ELSE "")
             \o (IF Truthy(developer) THEN "developer: " \o developer.s \o "\n" ELSE "")
             \o EmitAssetsLines(game)
             \o (IF Truthy(desc) THEN KeyedText("description", desc.s) ELSE "")
             \o EmitLaunchBlock(game)
             \o "\n"

\* dump_pegasus_metadata: the text of the file written.
DumpPegasusMetadata(hdr, gs) ==
    WriteHeader(hdr) \o ConcatAll([i \in 1..Len(gs) |-> WriteGame(gs[i])])

\* The lines  for raw_line in f  yields for a file of this text, each
\* without its "\n".
FileLines(text) == SplitLines(text)

(***************************************************************************)
(* Closure verifier: Tools/base.py                                         *)
(***************************************************************************)

\* _clean_text, on the characters of the model: NFKC and the removal of
\* zero-width characters and of "\r" change none of them.
CleanText(s) ==
    LET lines == Split(s, "\n")
    IN  Strip(Join([i \in 1..Len(lines) |-> RStrip(lines[i])], "\n"))

\* "\n".join(ln.lstrip() for ln in text.splitlines())
LStripLines(text) ==
    LET lines == SplitLines(text)
    IN  Join([i \in 1..Len(lines) |-> LStrip(lines[i])], "\n")

\* Only the launch block is normalized: a missing field stays missing.
NormalizeHeaderNoDefaults(h) ==
    LET lb == Get(h, "launch_block")
    IN  IF Truthy(lb) THEN Put(h, "launch_block", Str(LStripLines(lb.s))) ELSE h

\* _normalize_header
NormalizeHeader(h) ==
    LET exts  == Get(h, "extensions")
        exts2 == IF exts.t = "none" THEN Lst(<<>>)
                 ELSE IF IsStr(exts) THEN Lst(SplitCommaList(exts.s))
                 ELSE exts
        hA    == Put(h, "extensions", exts2)
        ig    == Get(hA, "ignore_files")
        hB    == Put(hA, "ignore_files", IF ig.t = "none" THEN Lst(<<>>) ELSE ig)
        lb    == Get(hB, "launch_block")
    IN  IF Truthy(lb) THEN Put(hB, "launch_block", Str(LStripLines(lb.s))) ELSE hB

\* sorted(set(q)) for strings
RECURSIVE SortedStrings(_)
SortedStrings(S) ==
    IF S = {} THEN <<>>
    ELSE LET m == CHOOSE x \in S : \A y \in S : y = x \/ StrLess(x, y)
         IN  <<m>> \o SortedStrings(S \ {m})

\* val not in (None, "", [])
NotBlank(v) == ~(v.t = "none" \/ v = Str("") \/ v = Lst(<<>>))

\* The cleaned ROM paths of _normalize_game, before set() and sorted().
CleanedRoms(g) ==
    LET raw  == Get(g, "roms")
        roms == IF ~Truthy(raw) THEN <<>>
                ELSE IF IsStr(raw) THEN <<raw.s>>
                ELSE IterItems(raw)
    IN  Flatten([i \in 1..Len(roms) |->
                    IF roms[i] # "" /\ CleanText(Strip(roms[i])) # ""
                    THEN <<CleanText(Strip(roms[i]))>> ELSE <<>>])

\* Copies the listed keys of g whose value is not None, "" or [].
RECURSIVE CopyNotBlank(_, _, _)
CopyNotBlank(norm, g, keys) ==
    IF keys = <<>> THEN norm
    ELSE CopyNotBlank(IF NotBlank(Get(g, keys[1])) THEN Put(norm, keys[1], Get(g, keys[1]))
                      ELSE norm,
                      g, Tail(keys))

\* _normalize_game
NormalizeGame(g) ==
    LET nA   == CopyNotBlank(<<>>, g, <<"game", "title", "sort_by", "developer", "year">>)
        cl   == CleanedRoms(g)
        nB   == Put(nA, "roms", Lst(SortedStrings({cl[i] : i \in 1..Len(cl)})))
        desc == Get(g, "description")
        nC   == IF Truthy(desc) THEN Put(nB, "description", Str(CleanText(desc.s))) ELSE nB
        lb   == Get(g, "launch_block")
        nD   == IF Truthy(lb) THEN Put(nC, "launch_block", Str(LStripLines(lb.s))) ELSE nC
    IN  CopyNotBlank(nD, g, <<"core_override">>)

\* _game_key: (name, rom0)
GameKey(g) ==
    LET name == IF Truthy(Get(g, "game")) THEN Get(g, "game").s
                ELSE IF Truthy(Get(g, "title")) THEN Get(g, "title").s
                ELSE ""
        roms == Get(g, "roms")
        rom0 == IF IsList(roms) /\ roms.l # <<>> THEN roms.l[1]
                ELSE IF IsStr(roms) THEN roms.s
                ELSE ""
    IN  <<name, rom0>>

\* a < b for two (name, rom0) keys
KeyLess(a, b) == StrLess(a[1], b[1]) \/ (a[1] = b[1] /\ StrLess(a[2], b[2]))

\* sorted(gs, key=_game_key): stable, by insertion.
RECURSIVE SortGames(_)
SortGames(gs) ==
    IF gs = <<>> THEN <<>>
    ELSE LET n      == Len(gs)
             front  == SortGames(SubSeq(gs, 1, n - 1))
             x      == gs[n]
             before == {i \in 1..Len(front) : ~KeyLess(GameKey(x), GameKey(front[i]))}
             at     == IF before = {} THEN 0 ELSE MaxOf(before)
         IN  SubSeq(front, 1, at) \o <<x>> \o SubSeq(front, at + 1, Len(front))

NormalizedGames(gs) == SortGames([i \in 1..Len(gs) |-> NormalizeGame(gs[i])])

\* g1_sorted == g2_sorted
GamesSame(ga, gb) ==
    LET a == NormalizedGames(ga)
        b == NormalizedGames(gb)
    IN  Len(a) = Len(b) /\ \A i \in 1..Len(a) : DictEq(a[i], b[i])

HeaderSame(ha, hb) == DictEq(NormalizeHeader(ha), NormalizeHeader(hb))

\* verify_closure is called without keep_temp by main.
keep_temp == FALSE

\* Step 4 of verify_closure: whether the scratch file is still there after
\* it, and what became of its removal.
ScratchAfterNoRemoval(keep, fails) == TRUE

ScratchAfter(keep, fails) == keep \/ fails

RemovalOutcome(keep, fails) ==
    IF keep THEN "kept" ELSE IF fails THEN "failed" ELSE "removed"

\* verify_closure(meta_path) from its call to its return, for a source file
\* of these lines: whether an exception left it, and the verdict otherwise.
VerifyClosure(lines) ==
    LET first  == ParsePegasusMetadata(lines)
        text   == FileLines(DumpPegasusMetadata(first.header, first.games))
        second == ParsePegasusMetadata(text)
    IN  IF first.err # "" THEN [raised |-> TRUE, ok |-> FALSE]
        ELSE IF second.err # "" THEN [raised |-> TRUE, ok |-> FALSE]
        ELSE [raised |-> FALSE,
              ok |-> HeaderSame(first.header, second.header)
                     /\ GamesSame(first.games, second.games)]

(***************************************************************************)
(* The state machine: verify_closure(meta_path) on a source file.          *)
(***************************************************************************)

VARIABLES
    given,          \* what the source text was written from: the ROM paths and the
                    \* extension tokens its author put in it (not read by the program)
    src,            \* the lines of the source file
    pc,             \* "parse1", "dump", "parse2", "compare", "done", "error";
                    \* "idle" when no verify_closure is running
    pos,            \* the next line of the file being parsed
    parser,         \* the local variables of the running parse_pegasus_metadata:
                    \* header, games, current_game, in_header, current_key, buf,
                    \* and err, the exception that ended it ("" when none)
    h1, g1,         \* the result of parsing the source file
    out,            \* the lines of the scratch file
    scratch,        \* whether the scratch file exists
    h2, g2,         \* the result of parsing the scratch file
    ok,             \* the verdict
    info,           \* what the exporter and the launch normalizer returned for
                    \* the launch texts of the source
    alt,            \* a second (header, games) in memory, and the text
                    \* dump_pegasus_metadata writes for it
    removal,        \* what became of the removal of the scratch file: "none"
                    \* (not reached), "removed", "failed" or "kept"
    batch,          \* main --verify with target all: the source files of the
                    \* platforms still to verify, the verdicts printed, all_ok,
                    \* and where main is: "loop", "running" (in verify_closure),
                    \* "all_ok", "partial" (the summaries), "raised"
    par,            \* two verify_closure runs side by side: each run's source
                    \* file, position and result, and the scratch directories
    edit            \* the source file under upsert_game: its lines before the
                    \* calls, the arguments of the calls made, the positions of
                    \* the games the calls matched, and where the editor is:
                    \* "none", "idle", "running" (in upsert_game), "raised"

\* The variables of a verify_closure run, and the others.
closure_vars == <<given, src, pc, pos, parser, h1, g1, out, scratch, h2, g2, ok, removal>>

side_vars == <<info, alt, batch, par, edit>>

vars == <<given, src, pc, pos, parser, h1, g1, out, scratch, h2, g2, ok, info, alt,
          removal, batch, par, edit>>

\* Bounds of the source texts: game blocks, ROM paths of a game, extensions.
MaxGames == 2

MaxRoms == 3

MaxExts == 3

\* Bound of the launch texts: tokens of a launch command.
MaxTokens == 3

\* Header parts of source texts.
HeaderPool == <<
    <<>>,
    <<"collection: C", "launch: run", "extension: 7z, zip">>,
    <<"launch:", "  run  ", "  two", "ignore-files:", "  x", "", "  y">>,
    <<"# note", "junk", "file: h", "foo-bar: v", "sort-by: 1">>,
    <<"ignore_files: pq", "  stray", "description: d">> >>

\* Game blocks of source texts.
GamePool == <<
    <<"game: A", "file: a">>,
    <<"game: B", "files:", "  d/a", "  d/b", "launch: run">>,
    <<"game: B", "launch:", "  run  ", "  two", "description: x">>,
    <<"game:", "file: a">>,
    <<"game: A", "year: 1", "developer: D", "sort-by: 2">>,
    <<"game: A", "roms: xy", "file: a">>,
    <<"game: B", "file: #a", "file:", "files: z", "  b", "  b">>,
    <<"game: A", "description:", "  one", "", "   two", "launch_override: go",
      "assets.box_front: media/x/c.png">>,
    <<"game: B", "title: T", "extension: q", "  r">> >>

\* ROM paths and extension tokens of source texts.
PathPool == <<"a.chd", "d/b c", "#c", "/r/e">>

ExtPool == <<"7z", "zip", "chd">>

\* What may follow the extension lines of a header.
\* No second (header, games).
NoAlt == [header |-> <<>>, games |-> <<>>, written |-> FALSE, out |-> <<>>]

\* Bound of the games built in memory: fields besides the title.
MaxFields == 3

\* Fields of a game built in memory (by an importer or an editor, not by
\* the parser): two ROM paths, plain fields, the assets mapping, legacy
\* flat asset keys (two of them name box_front) and two launch keys.
FieldPool == <<
    [k |-> "roms", v |-> Lst(<<"d/a", "d/b">>)],
    [k |-> "developer", v |-> Str("D")],
    [k |-> "assets", v |-> Dct(<< [k |-> "logo", v |-> "media/x/l.png"],
                                 [k |-> "video", v |-> "v.mp4"] >>)],
    [k |-> "assets.box_front", v |-> Str("media/x/c.png")],
    [k |-> "assets. box_front", v |-> Str("media/x/e.png")],
    [k |-> "launch_block", v |-> Str("run")],
    [k |-> "launch", v |-> Str("go")] >>

\* A header built in memory.
MemoryHeader == <<
    [k |-> "collection", v |-> Str("C")],
    [k |-> "launch_block", v |-> Str("run")],
    [k |-> "extensions", v |-> Lst(<<"7z", "zip">>)] >>

\* Pieces of launch commands, joined by single spaces.
LaunchTokens == <<
    "/opt/RetroArch", "/retroarch/%rom%", "\"/p/cores/a_libretro_android.so\"",
    "\"%ROM%\"", "{file}\"", "\"%file%" >>

ExtTails == << <<>>, <<"sort-by: 1">>, <<"game: A", "file: a">> >>

NothingGiven == [roms |-> <<>>, exts |-> <<>>, launch |-> ""]

\* Nothing exported or normalized yet.
NoInfo ==
    [exported |-> FALSE, games |-> <<>>, err |-> "",
     normalized |-> FALSE, launch_info |-> NormalizeLaunchBlock("")]

\* No batch.
NoBatch == [files |-> <<>>, todo |-> <<>>, verdicts |-> <<>>, all_ok |-> TRUE, at |-> "none"]

\* No runs side by side.
NoPar == [same_dir |-> FALSE, runs |-> <<>>, dirs |-> <<>>]

\* No file under upsert_game.
NoEdit == [before |-> <<>>, calls |-> <<>>, matched |-> {}, at |-> "none"]

\* The values every run starts from, whatever its source file.
Start ==
    /\ pc = "parse1"
    /\ pos = 1
    /\ parser = ParserStart
    /\ h1 = <<>> /\ g1 = <<>> /\ h2 = <<>> /\ g2 = <<>>
    /\ out = <<>>
    /\ scratch = FALSE
    /\ ok = FALSE
    /\ info = NoInfo
    /\ alt = NoAlt
    /\ removal = "none"
    /\ batch = NoBatch
    /\ par = NoPar
    /\ edit = NoEdit

\* Source texts of a header and up to MaxGames game blocks.
Init ==
    /\ \E h \in 1..Len(HeaderPool) :
       \E n \in 0..MaxGames :
       \E gs \in [1..n -> 1..Len(GamePool)] :
           src = HeaderPool[h] \o Flatten([i \in 1..n |-> GamePool[gs[i]]])
    /\ given = NothingGiven
    /\ Start

\* Source texts of one game with up to MaxRoms ROM paths, written as file:
\* lines or as a files: block, closed by the end of the input or by a game: line.
InitRoms ==
    /\ \E n \in 0..MaxRoms :
       \E ps \in [1..n -> 1..Len(PathPool)] :
       \E block \in BOOLEAN :
       \E last \in BOOLEAN :
           LET paths == [i \in 1..n |-> PathPool[ps[i]]]
           IN  /\ given = [roms |-> paths, exts |-> <<>>, launch |-> ""]
               /\ src = <<"game: A">>
                        \o (IF block THEN <<"files:">> \o [i \in 1..n |-> "  " \o paths[i]]
                            ELSE [i \in 1..n |-> "file: " \o paths[i]])
                        \o (IF last THEN <<>> ELSE <<"game: B", "file: z">>)
    /\ Start

\* Source texts of a header with 1..MaxExts extension tokens, written on the
\* key's line or as a block, under either spelling of the key.
InitExt ==
    /\ \E n \in 1..MaxExts :
       \E ts \in [1..n -> 1..Len(ExtPool)] :
       \E key \in {"extension", "extensions"} :
       \E block \in BOOLEAN :
       \E t \in 1..Len(ExtTails) :
           LET toks == [i \in 1..n |-> ExtPool[ts[i]]]
           IN  /\ given = [roms |-> <<>>, exts |-> toks, launch |-> ""]
               /\ src = <<"collection: C">>
                        \o (IF block THEN <<key \o ":">> \o [i \in 1..n |-> "  " \o toks[i]]
                            ELSE <<key \o ": " \o Join(toks, ", ")>>)
                        \o ExtTails[t]
    /\ Start

\* Source texts of a game A with a launch override of up to MaxTokens
\* tokens, with or without blanks around it, and a game B without one, under
\* a header with no launch block, with the same one, or with another.
InitLaunch ==
    /\ \E n \in 0..MaxTokens :
       \E ts \in [1..n -> 1..Len(LaunchTokens)] :
       \E pad \in {"", " "} :
       \E hdr \in {"none", "same", "other"} :
           LET text == pad \o Join([i \in 1..n |-> LaunchTokens[ts[i]]], " ") \o pad
           IN  /\ given = [roms |-> <<>>, exts |-> <<>>, launch |-> text]
               /\ src = (CASE hdr = "none"  -> <<>>
                           [] hdr = "same"  -> <<"launch: " \o text>>
                           [] hdr = "other" -> <<"launch: other">>)
                        \o <<"game: A", "launch: " \o text, "game: B", "file: b">>
    /\ Start

\* Shared leading directories of ROM paths, and file names of authored assets.
DirPool == <<"d", "009", "x y">>

NamePool == <<"c.png", "boxfront.png", "cover art.jpg">>

\* File names of the discs of a game.
DiscPool == <<"a.chd", "b c.chd", "#c", "e.chd">>

\* Source texts of a multi-disc game: a files: block of 2..MaxRoms paths
\* under a shared leading directory and an authored assets.box_front line
\* under media/<that directory>/, before or after the files: block, closed
\* by the end of the input or by a game: line.
InitAssets ==
    /\ \E n \in 2..MaxRoms :
       \E d \in 1..Len(DirPool) :
       \E m \in 1..Len(NamePool) :
       \E first \in BOOLEAN :
       \E last \in BOOLEAN :
           LET paths  == [i \in 1..n |-> DirPool[d] \o "/" \o DiscPool[i]]
               asset  == "media/" \o DirPool[d] \o "/" \o NamePool[m]
               line   == <<"assets.box_front: " \o asset>>
               files  == <<"files:">> \o [i \in 1..n |-> "  " \o paths[i]]
           IN  /\ given = [roms |-> paths, exts |-> <<>>, launch |-> "",
                           dir |-> DirPool[d], asset |-> asset]
               /\ src = <<"game: A">>
                        \o (IF first THEN line \o files ELSE files \o line)
                        \o (IF last THEN <<>> ELSE <<"game: B", "file: z">>)
    /\ Start

\* Bound of a batch: platforms under the resource root.
MaxPlatforms == 3

\* Source files of platforms: two that pass the closure check, one that
\* fails it, one on which the parser raises.
PlatformFiles == <<
    <<"game: A", "file: a">>,
    <<"collection: C", "launch: run", "game: B", "files:", "  d/a", "  d/b">>,
    <<"game: A", "year: 1">>,
    <<"game: A", "roms: xy", "file: a">> >>

\* The variables of a single verify_closure run when none is looked at.
NoRun ==
    /\ pc = "idle"
    /\ given = NothingGiven /\ src = <<>>
    /\ pos = 1 /\ parser = ParserStart
    /\ h1 = <<>> /\ g1 = <<>> /\ h2 = <<>> /\ g2 = <<>>
    /\ out = <<>> /\ scratch = FALSE /\ ok = FALSE
    /\ removal = "none"
    /\ info = NoInfo
    /\ alt = NoAlt
    /\ edit = NoEdit

\* main --verify with target all, after discover_platforms found 1 to
\* MaxPlatforms platforms: the loop is about to take the first of them in
\* the order of their keys.
InitBatch ==
    /\ \E n \in 1..MaxPlatforms :
       \E f \in [1..n -> 1..Len(PlatformFiles)] :
           LET files == [i \in 1..n |-> PlatformFiles[f[i]]]
           IN  batch = [files |-> files, todo |-> files, verdicts |-> <<>>,
                        all_ok |-> TRUE, at |-> "loop"]
    /\ par = NoPar
    /\ NoRun

\* A verify_closure run about to start on a source file of these lines.
NewRun(lines) ==
    [src |-> lines, pc |-> "parse1", h1 |-> <<>>, g1 |-> <<>>, h2 |-> <<>>, g2 |-> <<>>,
     ok |-> FALSE, err |-> ""]

\* No scratch file, and a source directory with no _norm_test in it yet:
\* slot i of files is the scratch file of run i.
NoFile == [exists |-> FALSE, lines |-> <<>>]

NoDir == [exists |-> FALSE, files |-> <<NoFile, NoFile>>]

\* Two verify_closure runs about to start on two different source files,
\* in one source directory or in two.
InitPar ==
    /\ \E a, b \in 1..Len(PlatformFiles) :
       \E same \in BOOLEAN :
           par = [same_dir |-> same,
                  runs |-> <<NewRun(PlatformFiles[a]), NewRun(PlatformFiles[b])>>,
                  dirs |-> <<NoDir, NoDir>>]
    /\ batch = NoBatch
    /\ NoRun

\* Source texts with a block of every multi-line key, in the header and in
\* games, and the lines inserted into them: blank lines and comment lines.
BasePool == <<
    <<"launch:", "  run", "  two", "ignore-files:", "  x", "  y", "game: A", "file: a">>,
    <<"extension:", "  7z", "  zip", "game: A", "files:", "  d/a", "  d/b",
      "description:", "  one", "  two">>,
    <<"collection: C", "game: B", "launch:", "  go", "  now", "game: A", "file: a">> >>

InsertPool == <<"", "   ", "# c", "// c", "//c: d">>

\* lines with line put before position at.
InsertAt(lines, at, line) ==
    SubSeq(lines, 1, at - 1) \o <<line>> \o SubSeq(lines, at, Len(lines))

\* Source texts made of a text of BasePool and one inserted line, anywhere
\* from before its first line to after its last.
InitLines ==
    /\ \E b \in 1..Len(BasePool) :
       \E at \in 1..(Len(BasePool[b]) + 1) :
       \E l \in 1..Len(InsertPool) :
           /\ src = InsertAt(BasePool[b], at, InsertPool[l])
           /\ given = [roms |-> <<>>, exts |-> <<>>, launch |-> "",
                       base |-> BasePool[b], at |-> at, line |-> InsertPool[l]]
    /\ Start

\* q backwards
Reverse(q) == [i \in 1..Len(q) |-> q[Len(q) + 1 - i]]

\* The entry with the entries of a mapping it holds in the opposite order.
ReverseInner(e) == IF IsDict(e.v) THEN [e EXCEPT !.v = Dct(Reverse(e.v.d))] ELSE e

\* The indices of S in increasing order.
RECURSIVE Ascending(_)
Ascending(S) == IF S = {} THEN <<>> ELSE <<MinOf(S)>> \o Ascending(S \ {MinOf(S)})

\* Two (header, games) pairs in memory that hold the same field-to-value
\* pairs: a game of up to MaxFields fields of FieldPool inserted after the
\* title in pool order, and the same game with the fields inserted in any
\* other order and the title last; a header, and the same header filled
\* backwards.
InitPerm ==
    /\ \E n \in 0..MaxFields :
       \E f \in [1..n -> 1..Len(FieldPool)] :
       \E hdr \in BOOLEAN :
           LET title  == [k |-> "game", v |-> Str("A")]
               sorted == Ascending({f[i] : i \in 1..n})
               header == IF hdr THEN MemoryHeader ELSE <<>>
           IN  /\ \A i, j \in 1..n : f[i] = f[j] => i = j
               /\ h1 = header
               /\ g1 = << <<title>> \o [i \in 1..n |-> FieldPool[sorted[i]]] >>
               /\ alt = [NoAlt EXCEPT
                             !.header = Reverse(header),
                             !.games = << [i \in 1..n |-> ReverseInner(FieldPool[f[i]])]
                                          \o <<title>> >>]
    /\ pc = "dump"
    /\ given = NothingGiven /\ src = <<>>
    /\ pos = 1 /\ parser = ParserStart
    /\ h2 = <<>> /\ g2 = <<>>
    /\ out = <<>> /\ scratch = FALSE /\ ok = FALSE
    /\ info = NoInfo
    /\ removal = "none"
    /\ batch = NoBatch
    /\ par = NoPar
    /\ edit = NoEdit

\* The file being parsed: the source, then the scratch file.
Input == IF pc = "parse1" THEN src ELSE out

\* One line of the file is read and handled.
ParseLine ==
    /\ pc \in {"parse1", "parse2"}
    /\ pos <= Len(Input)
    /\ parser' = ParseLineStep(parser, Input[pos])
    /\ pc' = IF parser'.err # "" THEN "error" ELSE pc
    /\ pos' = pos + 1
    /\ UNCHANGED <<given, src, h1, g1, out, scratch, h2, g2, ok, removal>>
    /\ UNCHANGED side_vars

\* The end of the file: the parser finishes and returns (header, games).
ParseEnd ==
    /\ pc \in {"parse1", "parse2"}
    /\ pos > Len(Input)
    /\ parser' = ParseFinish(parser)
    /\ pos' = 1
    /\ IF parser'.err # ""
       THEN /\ pc' = "error"
            /\ UNCHANGED <<h1, g1, h2, g2>>
       ELSE IF pc = "parse1"
       THEN /\ h1' = parser'.header /\ g1' = parser'.games /\ pc' = "dump"
            /\ UNCHANGED <<h2, g2>>
       ELSE /\ h2' = parser'.header /\ g2' = parser'.games /\ pc' = "compare"
            /\ UNCHANGED <<h1, g1>>
    /\ UNCHANGED <<given, src, out, scratch, ok, removal>>
    /\ UNCHANGED side_vars

\* dump_pegasus_metadata(temp_path, h1, g1); the second parse then starts
\* with fresh local variables.
Dump ==
    /\ pc = "dump"
    /\ out' = FileLines(DumpPegasusMetadata(h1, g1))
    /\ scratch' = TRUE
    /\ parser' = ParserStart
    /\ pc' = "parse2"
    /\ UNCHANGED <<given, src, pos, h1, g1, h2, g2, ok, removal>>
    /\ UNCHANGED side_vars

\* The comparison after normalization, and the removal of the scratch file,
\* which the file system lets succeed or fail; the exception of a failed
\* removal is caught and dropped.
Compare ==
    /\ pc = "compare"
    /\ ok' = (HeaderSame(h1, h2) /\ GamesSame(g1, g2))
    /\ \E fails \in BOOLEAN :
           /\ removal' = RemovalOutcome(keep_temp, fails)
           /\ scratch' = ScratchAfter(keep_temp, fails)
    /\ pc' = "done"
    /\ UNCHANGED <<given, src, pos, parser, h1, g1, out, h2, g2>>
    /\ UNCHANGED side_vars

\* The rom_root argument of export_platform_to_json: left out (None, as main
\* calls it) or a directory.
RomRoots == {NoneV, Str("roms")}

\* export_platform_to_json after its parse: the launch entries that
\* _build_game_json gives every game, or the exception that leaves the
\* export when a game has ROM paths and no rom_root was given; nothing is
\* exported then.
ExportGames ==
    /\ pc = "dump"
    /\ ~info.exported
    /\ info.err = ""
    /\ \E rom_root \in RomRoots :
           LET built == ExportPlatformGames(h1, g1, rom_root)
           IN  info' = [info EXCEPT !.exported = (built.err = ""),
                                    !.err = built.err,
                                    !.games = built.games]
    /\ UNCHANGED closure_vars
    /\ UNCHANGED <<alt, batch, par, edit>>

\* normalize_launch_block on the launch text the source was written from.
NormalizeLaunch ==
    /\ info.exported \/ info.err # ""
    /\ ~info.normalized
    /\ info' = [info EXCEPT !.normalized = TRUE,
                            !.launch_info = NormalizeLaunchBlock(given.launch)]
    /\ UNCHANGED closure_vars
    /\ UNCHANGED <<alt, batch, par, edit>>

\* dump_pegasus_metadata on the second (header, games).
DumpAlt ==
    /\ ~alt.written
    /\ alt' = [alt EXCEPT !.written = TRUE,
                          !.out = FileLines(DumpPegasusMetadata(alt.header, alt.games))]
    /\ UNCHANGED closure_vars
    /\ UNCHANGED <<info, batch, par, edit>>

\* A turn of the loop of main: verify_closure is called on the file of the
\* next platform.
StartPlatform ==
    /\ batch.at = "loop"
    /\ batch.todo # <<>>
    /\ batch' = [batch EXCEPT !.at = "running"]
    /\ src' = Head(batch.todo)
    /\ pc' = "parse1" /\ pos' = 1 /\ parser' = ParserStart
    /\ h1' = <<>> /\ g1' = <<>> /\ h2' = <<>> /\ g2' = <<>>
    /\ out' = <<>> /\ scratch' = FALSE /\ ok' = FALSE /\ removal' = "none"
    /\ UNCHANGED <<given, info, alt, par, edit>>

\* verify_closure is over: its verdict is printed and kept in all_ok, or its
\* exception leaves main.
EndPlatform ==
    /\ batch.at = "running"
    /\ pc \in {"done", "error"}
    /\ batch' = IF pc = "error" THEN [batch EXCEPT !.at = "raised"]
                ELSE [batch EXCEPT !.at = "loop",
                                   !.todo = Tail(@),
                                   !.verdicts = Append(@, ok),
                                   !.all_ok = @ /\ ok]
    /\ pc' = "idle"
    /\ UNCHANGED <<given, src, pos, parser, h1, g1, out, scratch, h2, g2, ok, removal>>
    /\ UNCHANGED <<info, alt, par, edit>>

\* After the loop: the summary line.
Summary ==
    /\ batch.at = "loop"
    /\ batch.todo = <<>>
    /\ batch' = [batch EXCEPT !.at = IF batch.all_ok THEN "all_ok" ELSE "partial"]
    /\ UNCHANGED closure_vars
    /\ UNCHANGED <<info, alt, par, edit>>

\* The source directory of run i, and the run's scratch file in it.
DirOf(i) == IF par.same_dir THEN 1 ELSE i

ScratchOf(i) == par.dirs[DirOf(i)].files[i]

\* Run i is at this step of verify_closure.
At(i, step) == i \in 1..Len(par.runs) /\ par.runs[i].pc = step

\* The only change of a step of run i that touches no file.
RunBecomes(i, run) ==
    /\ par' = [par EXCEPT !.runs[i] = run]
    /\ UNCHANGED closure_vars
    /\ UNCHANGED <<info, alt, batch, edit>>

\* The change of a step of run i that leaves its source directory as dir.
RunAndDirBecome(i, run, dir) ==
    /\ par' = [par EXCEPT !.runs[i] = run, !.dirs[DirOf(i)] = dir]
    /\ UNCHANGED closure_vars
    /\ UNCHANGED <<info, alt, batch, edit>>

\* h1, g1 = parse_pegasus_metadata(meta_path)
ParParse1 ==
    \E i \in 1..2 :
        /\ At(i, "parse1")
        /\ LET p == ParsePegasusMetadata(par.runs[i].src)
           IN  RunBecomes(i, IF p.err # ""
                             THEN [par.runs[i] EXCEPT !.pc = "raised", !.err = p.err]
                             ELSE [par.runs[i] EXCEPT !.pc = "makedirs",
                                                      !.h1 = p.header, !.g1 = p.games])

\* os.makedirs(norm_dir, exist_ok=True), its first access: mkdir makes the
\* directory, or raises FileExistsError inside makedirs when it is there.
ParMakedirs ==
    \E i \in 1..2 :
        /\ At(i, "makedirs")
        /\ IF par.dirs[DirOf(i)].exists
           THEN RunBecomes(i, [par.runs[i] EXCEPT !.pc = "isdir"])
           ELSE RunAndDirBecome(i, [par.runs[i] EXCEPT !.pc = "dump"],
                                   [par.dirs[DirOf(i)] EXCEPT !.exists = TRUE])

\* os.makedirs after its mkdir raised: with exist_ok the exception is
\* dropped when path.isdir finds the directory, and leaves makedirs and
\* verify_closure when the directory is gone by then.
ParMakedirsIsdir ==
    \E i \in 1..2 :
        /\ At(i, "isdir")
        /\ RunBecomes(i, IF par.dirs[DirOf(i)].exists
                         THEN [par.runs[i] EXCEPT !.pc = "dump"]
                         ELSE [par.runs[i] EXCEPT !.pc = "raised",
                                                  !.err = "FileExistsError"])

\* dump_pegasus_metadata(temp_path, h1, g1): open(path, "w") raises when the
\* directory is not there.
ParDump ==
    \E i \in 1..2 :
        /\ At(i, "dump")
        /\ IF par.dirs[DirOf(i)].exists
           THEN RunAndDirBecome(i, [par.runs[i] EXCEPT !.pc = "parse2"],
                    [par.dirs[DirOf(i)] EXCEPT !.files[i] =
                        [exists |-> TRUE,
                         lines |-> FileLines(DumpPegasusMetadata(par.runs[i].h1,
                                                                 par.runs[i].g1))]])
           ELSE RunBecomes(i, [par.runs[i] EXCEPT !.pc = "raised",
                                                  !.err = "FileNotFoundError"])

\* h2, g2 = parse_pegasus_metadata(temp_path)
ParParse2 ==
    \E i \in 1..2 :
        /\ At(i, "parse2")
        /\ LET p == ParsePegasusMetadata(ScratchOf(i).lines)
           IN  RunBecomes(i,
                   IF ~ScratchOf(i).exists
                   THEN [par.runs[i] EXCEPT !.pc = "raised", !.err = "FileNotFoundError"]
                   ELSE IF p.err # ""
                   THEN [par.runs[i] EXCEPT !.pc = "raised", !.err = p.err]
                   ELSE [par.runs[i] EXCEPT !.pc = "compare",
                                            !.h2 = p.header, !.g2 = p.games])

\* The comparison after normalization.
ParCompare ==
    \E i \in 1..2 :
        /\ At(i, "compare")
        /\ LET r == par.runs[i]
           IN  RunBecomes(i, [r EXCEPT !.ok = HeaderSame(r.h1, r.h2) /\ GamesSame(r.g1, r.g2),
                                       !.pc = IF keep_temp THEN "done" ELSE "remove"])

\* os.remove(temp_path); its exception ends the clean-up.
ParRemove ==
    \E i \in 1..2 :
        /\ At(i, "remove")
        /\ IF ScratchOf(i).exists
           THEN RunAndDirBecome(i, [par.runs[i] EXCEPT !.pc = "listdir"],
                                   [par.dirs[DirOf(i)] EXCEPT !.files[i] = NoFile])
           ELSE RunBecomes(i, [par.runs[i] EXCEPT !.pc = "done"])

\* if not os.listdir(norm_dir)
ParListdir ==
    \E i \in 1..2 :
        /\ At(i, "listdir")
        /\ LET dir == par.dirs[DirOf(i)]
               empty == \A k \in 1..2 : ~dir.files[k].exists
           IN  RunBecomes(i, [par.runs[i] EXCEPT
                                 !.pc = IF dir.exists /\ empty THEN "rmdir" ELSE "done"])

\* os.rmdir(norm_dir); its exception (the directory is not empty any more,
\* or is gone) is dropped.
ParRmdir ==
    \E i \in 1..2 :
        /\ At(i, "rmdir")
        /\ LET dir == par.dirs[DirOf(i)]
               empty == \A k \in 1..2 : ~dir.files[k].exists
           IN  RunAndDirBecome(i, [par.runs[i] EXCEPT !.pc = "done"],
                                  IF dir.exists /\ empty THEN [dir EXCEPT !.exists = FALSE]
                                  ELSE dir)

(***************************************************************************)
(* Editor: upsert_game and _index_games_by_key of Tools/metadata_editor.py. *)
(***************************************************************************)

\* for r in roms: index[r] = i
RECURSIVE IndexRoms(_, _, _)
IndexRoms(index, roms, i) ==
    IF roms = <<>> THEN index
    ELSE IndexRoms(Put(index, roms[1], i), Tail(roms), i)

\* roms = g.get("roms") or []
RomsOrNone(g) == IF Truthy(Get(g, "roms")) THEN IterRoms(g) ELSE <<>>

\* if title and title not in index: index[title] = i
IndexTitle(index, title, i) ==
    IF Truthy(title) /\ IsStr(title) /\ ~HasKey(index, title.s)
    THEN Put(index, title.s, i) ELSE index

\* The loop of _index_games_by_key from game i on: every ROM path of the
\* game names it, and so does its title if nothing has that key yet.
RECURSIVE IndexGamesFrom(_, _, _)
IndexGamesFrom(index, games, i) ==
    IF i > Len(games) THEN index
    ELSE IndexGamesFrom(IndexTitle(IndexRoms(index, RomsOrNone(games[i]), i),
                                   Get(games[i], "game"), i),
                        games, i + 1)

\* _index_games_by_key
IndexGamesByKey(games) == IndexGamesFrom(<<>>, games, 1)

\* for k, v in extra_fields.items(): if v is not None: g[k] = v
RECURSIVE PutExtraFields(_, _)
PutExtraFields(g, extra) ==
    IF extra = <<>> THEN g
    ELSE PutExtraFields(IF extra[1].v # NoneV THEN Put(g, extra[1].k, extra[1].v) ELSE g,
                        Tail(extra))

\* if v is not None: g[k] = v
PutGiven(g, k, v) == IF v # NoneV THEN Put(g, k, v) ELSE g

\* The game found, with rom_path among its roms.
WithRom(g, rom_path) ==
    IF \E i \in 1..Len(RomsOrNone(g)) : RomsOrNone(g)[i] = rom_path THEN g
    ELSE Put(g, "roms", Lst(Append(RomsOrNone(g), rom_path)))

\* g = {"game": title or rom_path, "roms": [rom_path]}
NewGame(rom_path, title) ==
    <<[k |-> "game", v |-> IF Truthy(title) THEN title ELSE Str(rom_path)],
      [k |-> "roms", v |-> Lst(<<rom_path>>)]>>

\* The fields of the arguments that are not None, put on the game.
UpdateFields(g, title, developer, description, extra) ==
    PutExtraFields(PutGiven(PutGiven(PutGiven(g, "game", title),
                                     "developer", developer),
                            "description", description),
                   extra)

\* The position in games of the game upsert_game works on: that of the game
\* rom_path names, or one past the last for a game it appends.
TargetOf(games, rom_path) ==
    IF HasKey(IndexGamesByKey(games), rom_path)
    THEN Get(IndexGamesByKey(games), rom_path) ELSE Len(games) + 1

\* games with the game at this position updated, or with a new game there.
UpsertAt(games, at, rom_path, title, developer, description, extra) ==
    IF at <= Len(games)
    THEN [games EXCEPT ![at] = UpdateFields(WithRom(@, rom_path), title, developer,
                                            description, extra)]
    ELSE Append(games, UpdateFields(NewGame(rom_path, title), title, developer,
                                    description, extra))

\* The games upsert_game hands to dump_pegasus_metadata; an argument left
\* out is None.
UpsertGames(games, rom_path, title, developer, description, extra) ==
    UpsertAt(games, TargetOf(games, rom_path), rom_path, title, developer, description, extra)

\* Bound of the calls of upsert_game made on a file.
MaxCalls == 2

\* Metadata files to edit: two games with and without a header, a game with
\* a description of two lines, a header key and a game field of no special
\* meaning, a game with no title, and a file whose parse raises.
EditFiles == <<
    <<"collection: C", "launch: run", "game: A", "file: a", "game: B", "file: b">>,
    <<"game: A", "file: a", "game: B", "file: b", "description:", "  one", "  two">>,
    <<"foo-bar: v", "game: A", "file: a", "game: B", "file: b", "year: 1">>,
    <<"game:", "file: a", "game: B", "files:", "  b", "  c">>,
    <<"game: A", "roms: xy", "file: a">> >>

\* The arguments of a call; an argument left out is None.
Call(rom_path, title, developer, description, extra) ==
    [rom_path |-> rom_path, title |-> title, developer |-> developer,
     description |-> description, extra_fields |-> extra]

\* The calls made: with the ROM path of a game, with the title of a game and
\* with a path of no game; with no other argument, with a developer, with a
\* title (an empty one too), with a description of two lines, and with
\* extra fields of which one is None.
EditCalls == <<
    Call("a", NoneV, NoneV, NoneV, <<>>),
    Call("a", NoneV, Str("D"), NoneV, <<>>),
    Call("a", Str(""), NoneV, NoneV, <<>>),
    Call("a", NoneV, NoneV, NoneV, <<[k |-> "year", v |-> Str("2")],
                                     [k |-> "genre", v |-> NoneV]>>),
    Call("B", Str("T"), NoneV, NoneV, <<>>),
    Call("B", NoneV, NoneV, Str("one\ntwo"), <<>>),
    Call("z", NoneV, NoneV, NoneV, <<>>),
    Call("z", Str("T"), Str("D"), Str("one\ntwo"), <<>>) >>

\* A metadata file of EditFiles before any call of upsert_game.
InitEdit ==
    /\ \E f \in 1..Len(EditFiles) :
           /\ src = EditFiles[f]
           /\ edit = [NoEdit EXCEPT !.before = EditFiles[f], !.at = "idle"]
    /\ pc = "idle"
    /\ given = NothingGiven
    /\ pos = 1 /\ parser = ParserStart
    /\ h1 = <<>> /\ g1 = <<>> /\ h2 = <<>> /\ g2 = <<>>
    /\ out = <<>> /\ scratch = FALSE /\ ok = FALSE
    /\ removal = "none"
    /\ info = NoInfo
    /\ alt = NoAlt
    /\ batch = NoBatch
    /\ par = NoPar

\* upsert_game is called on the file: header, games =
\* parse_pegasus_metadata(meta_path) starts.
StartUpsert ==
    /\ edit.at = "idle"
    /\ Len(edit.calls) < MaxCalls
    /\ edit' = [edit EXCEPT !.at = "running"]
    /\ pc' = "parse1" /\ pos' = 1 /\ parser' = ParserStart
    /\ h1' = <<>> /\ g1' = <<>>
    /\ UNCHANGED <<given, src, out, scratch, h2, g2, ok, removal>>
    /\ UNCHANGED <<info, alt, batch, par>>

\* upsert_game after its parse: the game is updated or appended and
\* dump_pegasus_metadata(meta_path, header, games) writes the file again.
WriteBack ==
    /\ edit.at = "running"
    /\ pc = "dump"
    /\ \E n \in 1..Len(EditCalls) :
           LET c == EditCalls[n]
           IN  /\ edit' = [edit EXCEPT !.at = "idle",
                                       !.calls = Append(@, c),
                                       !.matched = @ \cup {TargetOf(g1, c.rom_path)}]
               /\ src' = FileLines(DumpPegasusMetadata(h1,
                             UpsertGames(g1, c.rom_path, c.title, c.developer,
                                         c.description, c.extra_fields)))
    /\ pc' = "idle"
    /\ UNCHANGED <<given, pos, parser, h1, g1, out, scratch, h2, g2, ok, removal>>
    /\ UNCHANGED <<info, alt, batch, par>>

\* The exception of the parse leaves upsert_game: the file is as it was.
UpsertRaises ==
    /\ edit.at = "running"
    /\ pc = "error"
    /\ edit' = [edit EXCEPT !.at = "raised"]
    /\ pc' = "idle"
    /\ UNCHANGED <<given, src, pos, parser, h1, g1, out, scratch, h2, g2, ok, removal>>
    /\ UNCHANGED <<info, alt, batch, par>>

Next == ParseLine \/ ParseEnd \/ Dump \/ Compare

NextPar ==
    \/ ParParse1 \/ ParMakedirs \/ ParMakedirsIsdir \/ ParDump \/ ParParse2
    \/ ParCompare \/ ParRemove \/ ParListdir \/ ParRmdir

NextBatch ==
    \/ StartPlatform \/ ParseLine \/ ParseEnd \/ Dump \/ Compare \/ EndPlatform
    \/ Summary

NextPerm == Dump \/ DumpAlt

NextLaunch == ParseLine \/ ParseEnd \/ ExportGames \/ NormalizeLaunch

Spec == Init /\ [][Next]_vars

SpecRoms == InitRoms /\ [][Next]_vars

SpecExt == InitExt /\ [][Next]_vars

SpecLaunch == InitLaunch /\ [][NextLaunch]_vars

SpecPerm == InitPerm /\ [][NextPerm]_vars

SpecAssets == InitAssets /\ [][Next]_vars

SpecBatch == InitBatch /\ [][NextBatch]_vars

SpecLines == InitLines /\ [][Next]_vars

NextEdit == StartUpsert \/ ParseLine \/ ParseEnd \/ WriteBack \/ UpsertRaises

SpecPar == InitPar /\ [][NextPar]_vars

SpecEdit == InitEdit /\ [][NextEdit]_vars

(***************************************************************************)
(* Properties                                                              *)
(***************************************************************************)

\* The first parse has returned (h1, g1).
FirstParseDone == pc \in {"dump", "parse2", "compare", "done"}

\* The scratch file has been written from (h1, g1).
ScratchWritten == pc \in {"parse2", "compare", "done"}

\* The games the serializer writes a block for, in order.
Titled(gs) == SelectSeq(gs, LAMBDA g : Truthy(TitleOf(g)))

\* The positions of the game: lines of a text, in order.
GameLines(lines) ==
    SelectSeq([i \in 1..Len(lines) |-> i], LAMBDA i : StartsWith(lines[i], "game: "))

\* The k-th game block of a text: from its game: line to the line before
\* the next one.
Block(lines, k) ==
    LET at == GameLines(lines)
    IN  SubSeq(lines, at[k], IF k < Len(at) THEN at[k + 1] - 1 ELSE Len(lines))

\* The scratch file has one block per titled game of g1.
BlocksMatch == Len(GameLines(out)) = Len(Titled(g1))

HasLaunchLine(block) == \E i \in 1..Len(block) : StartsWith(block[i], "launch:")

RomsOf(g) == Get(g, "roms").l

SetOf(q) == {q[i] : i \in 1..Len(q)}

\* The key of a line the parser reads as a key line, "" for any other line.
LineKey(line) ==
    IF Strip(line) = "" \/ StartsWith(LStrip(line), "#") \/ StartsWith(line, " ")
       \/ Find(line, ":") = 0
    THEN ""
    ELSE Strip(SubSeq(line, 1, Find(line, ":") - 1))

\* The keys of the key lines of the header part of a text.
RECURSIVE HeaderKeys(_)
HeaderKeys(lines) ==
    IF lines = <<>> \/ LineKey(lines[1]) = "game" THEN {}
    ELSE {LineKey(lines[1])} \cup HeaderKeys(Tail(lines))

\* C1 (as claimed): whenever verify_closure returns, it returns True: the
\* header and the games parsed from the scratch file equal, after
\* normalization, those parsed from the source.
C1_ClosureHoldsForEveryText == pc = "done" => ok

\* C2 (as claimed): no sequence of lines makes parse_pegasus_metadata raise.
C2_ParseNeverRaises == parser.err = ""

\* C3 (as claimed): the parsed header always carries extensions and
\* ignore_files, as sequences.
C3_HeaderListsNeverMissing ==
    FirstParseDone =>
        /\ HasKey(h1, "extensions") /\ IsList(Get(h1, "extensions"))
        /\ HasKey(h1, "ignore_files") /\ IsList(Get(h1, "ignore_files"))

\* C3 (amended): a header whose text has no extension line (no ignore-files
\* line) is returned without the field; extensions, when present, is a
\* sequence; it is _normalize_header that supplies the missing fields, as
\* empty sequences, so that the normalized header always carries both.
C3_NormalizedHeaderHasLists ==
    FirstParseDone =>
        LET nh   == NormalizeHeader(h1)
            keys == HeaderKeys(src)
        IN  /\ HasKey(h1, "extensions") => IsList(Get(h1, "extensions"))
            /\ keys \cap {"extension", "extensions"} = {} =>
                   /\ ~HasKey(h1, "extensions")
                   /\ Get(nh, "extensions") = Lst(<<>>)
            /\ keys \cap {"ignore-files", "ignore_files"} = {} =>
                   /\ ~HasKey(h1, "ignore_files")
                   /\ Get(nh, "ignore_files") = Lst(<<>>)
            /\ HasKey(nh, "extensions") /\ IsList(Get(nh, "extensions"))
            /\ HasKey(nh, "ignore_files")

\* C3 witness: a text with games whose header has neither line was parsed.
C3_Witness ==
    /\ FirstParseDone
    /\ Len(g1) > 0
    /\ HeaderKeys(src) # {}
    /\ ~HasKey(h1, "extensions")
    /\ ~HasKey(h1, "ignore_files")

\* C4 (as claimed): every game the parser returns has a non-empty title.
C4_TitlesNonEmpty ==
    FirstParseDone => \A i \in 1..Len(g1) : Truthy(Get(g1[i], "game"))

\* roms is a sequence of non-empty paths, file is roms[0] when there is
\* one and is not set otherwise.
Reconciled(g) ==
    /\ HasKey(g, "roms") /\ IsList(Get(g, "roms"))
    /\ \A i \in 1..Len(RomsOf(g)) : Strip(RomsOf(g)[i]) # ""
    /\ RomsOf(g) # <<>> => Get(g, "file") = Str(RomsOf(g)[1])
    /\ RomsOf(g) = <<>> => ~HasKey(g, "file")

\* C5: every finished game, whether closed by a following game: line or by
\* the end of the input, has its roms and its primary file reconciled.
C5_RomsAndFileReconciled ==
    /\ \A i \in 1..Len(parser.games) : Reconciled(parser.games[i])
    /\ \A i \in 1..Len(g1) : Reconciled(g1[i])
    /\ \A i \in 1..Len(g2) : Reconciled(g2[i])

\* C5 witness: the parser is in a later game block, having closed a game
\* that has several paths after dropping an empty file: value; and a parse
\* has returned a last game with a path and one without any.
C5_WitnessClosedByGameLine ==
    /\ pc = "parse1"
    /\ ~parser.current_game.none
    /\ \E i \in 1..Len(parser.games) :
          /\ Len(RomsOf(parser.games[i])) >= 2
          /\ \E j \in 1..Len(src) : LineKey(src[j]) = "file" /\ Strip(src[j]) = "file:"

C5_Witness ==
    /\ FirstParseDone
    /\ Len(g1) = 2
    /\ Len(RomsOf(g1[1])) >= 2
    /\ \E j \in 1..Len(src) : Strip(src[j]) = "file:"
    /\ RomsOf(g1[2]) # <<>>

\* The game has none of the keys the serializer reads a launch override from.
NoLaunchKeys(g) ==
    ~HasKey(g, "launch_override") /\ ~HasKey(g, "launch_block") /\ ~HasKey(g, "launch")

\* C6: the block written for a game without launch override has no launch:
\* line, whatever the header's launch block.
C6_NoOverrideNoLaunchLine ==
    ScratchWritten =>
        /\ BlocksMatch
        /\ \A k \in 1..Len(Titled(g1)) :
              NoLaunchKeys(Titled(g1)[k]) => ~HasLaunchLine(Block(out, k))

\* C6 witness: the header has a launch block and a game without override,
\* but with a description, was written.
C6_Witness ==
    /\ ScratchWritten
    /\ Truthy(Get(h1, "launch_block"))
    /\ \E k \in 1..Len(Titled(g1)) :
          /\ NoLaunchKeys(Titled(g1)[k])
          /\ Len(Block(out, k)) > 2

\* The game's launch override, trimmed, is the header's launch block, trimmed.
OverrideIsDefault(g) ==
    /\ ~HasKey(g, "launch_override")
    /\ IsStr(Get(g, "launch_block")) /\ IsStr(Get(h1, "launch_block"))
    /\ Strip(Get(g, "launch_block").s) # ""
    /\ Strip(Get(g, "launch_block").s) = Strip(Get(h1, "launch_block").s)

\* C7 (as claimed): a game whose override equals the header default is
\* written without a launch: line.
C7_DefaultOverrideNotWritten ==
    ScratchWritten =>
        \A k \in 1..Len(Titled(g1)) :
            OverrideIsDefault(Titled(g1)[k]) => ~HasLaunchLine(Block(out, k))

\* What the serializer does instead: it does not look at the header, and a
\* game whose override equals the header default is written with its launch:
\* line like any other override, launch: <override> when the override is one
\* line.
C7_DefaultOverrideStillWritten ==
    ScratchWritten =>
        /\ BlocksMatch
        /\ \A k \in 1..Len(Titled(g1)) :
              LET g  == Titled(g1)[k]
                  b  == Block(out, k)
                  lb == Strip(Get(g, "launch_block").s)
              IN  OverrideIsDefault(g) =>
                      /\ HasLaunchLine(b)
                      /\ Find(lb, "\n") = 0 =>
                            \E i \in 1..Len(b) :
                                /\ b[i] = "launch: " \o lb
                                /\ \A j \in 1..Len(b) : StartsWith(b[j], "launch:") => j = i

\* A game whose override equals the header default was written.
C7_Witness ==
    /\ ScratchWritten
    /\ \E k \in 1..Len(Titled(g1)) : OverrideIsDefault(Titled(g1)[k])

\* C8: the block of a game has no file line for no path, the line
\* file: <path> for one path, and for two or more paths a files: line
\* followed by exactly one two-space-indented line per path, in roms order.
C8_FileFormByRomCount ==
    ScratchWritten =>
        /\ BlocksMatch
        /\ \A k \in 1..Len(Titled(g1)) :
              LET roms  == RomsOf(Titled(g1)[k])
                  n     == Len(roms)
                  b     == Block(out, k)
                  others == \A i \in 1..Len(b) : i # 2 => ~StartsWith(b[i], "file")
              IN  /\ n = 0 => \A i \in 1..Len(b) : ~StartsWith(b[i], "file")
                  /\ n = 1 => b[2] = "file: " \o roms[1] /\ others
                  /\ n >= 2 =>
                        /\ b[2] = "files:"
                        /\ \A i \in 1..n : b[2 + i] = "  " \o roms[i]
                        /\ Len(b) >= n + 3 /\ ~StartsWith(b[n + 3], " ")
                        /\ others

\* C8 witness: a game of three paths and a game of one path were written.
C8_Witness ==
    /\ ScratchWritten
    /\ Len(Titled(g1)) = 2
    /\ Len(RomsOf(Titled(g1)[1])) = 3
    /\ Len(RomsOf(Titled(g1)[2])) = 1

\* C9 (as claimed): the roms of every parsed game come back from
\* serializing and parsing: identical for at most one path, the same set of
\* paths for two or more.
C9_RomsRoundTrip ==
    pc = "done" =>
        /\ Len(g2) = Len(g1)
        /\ \A i \in 1..Len(g1) :
              i <= Len(g2) =>
                  IF Len(RomsOf(g1[i])) <= 1 THEN RomsOf(g2[i]) = RomsOf(g1[i])
                  ELSE SetOf(RomsOf(g2[i])) = SetOf(RomsOf(g1[i]))

\* The header of the given extensions under a key, on one line and as a block.
ExtLineForm(key) == <<key \o ": " \o Join(given.exts, ", ")>>

ExtBlockForm(key) == <<key \o ":">> \o [i \in 1..Len(given.exts) |-> "  " \o given.exts[i]]

ExtensionsOf(lines) == Get(ParsePegasusMetadata(lines).header, "extensions")

\* C10: a header written from a list of extension tokens parses to that
\* list, in order, whether written on the key's line or as a block, under
\* either spelling of the key; so the two forms parse to the same sequence.
C10_ExtensionFormsAgree ==
    FirstParseDone =>
        /\ Get(h1, "extensions") = Lst(given.exts)
        /\ \A key \in {"extension", "extensions"} :
              /\ ExtensionsOf(ExtLineForm(key)) = ExtensionsOf(ExtBlockForm(key))
              /\ ExtensionsOf(ExtLineForm(key)) = Get(h1, "extensions")

\* C10 witness: a block of several extensions under the key extensions,
\* followed by a game, was parsed.
C10_Witness ==
    /\ FirstParseDone
    /\ Len(given.exts) >= 2
    /\ src[2] = "extensions:"
    /\ Len(g1) = 1

\* The launch text of the source names the core a_libretro_android.so.
NamesCore == Contains(given.launch, "/cores/a_libretro_android.so")

\* The header's launch line holds the same text as the game's.
SameAsHeader == src[1] = "launch: " \o given.launch

\* C11 (as claimed): when the parser returns, a game whose launch override
\* holds a reference /cores/<name>_libretro_android.so has that file name as
\* its core override, and a game without such a reference has none.
C11_ParserSetsCoreOverride ==
    FirstParseDone =>
        /\ Len(g1) = 2
        /\ Get(g1[1], "core_override") =
               (IF NamesCore THEN Str("a_libretro_android.so") ELSE NoneV)
        /\ ~HasKey(g1[2], "core_override")

\* What the code does instead: the parser derives no core override (no game
\* it returns has one unless its block has such a key line); an export that
\* returns sets core_override, to the file name of the core reference in
\* the game's launch block, when that block, trimmed, is non-empty, differs
\* from the header's launch block and can be split into tokens, and sets
\* none otherwise.  An export called without rom_root on a file with a game
\* that has ROM paths raises and exports no game.
C11_ExporterSetsCoreOverride ==
    /\ FirstParseDone => \A i \in 1..Len(g1) : ~HasKey(g1[i], "core_override")
    /\ info.exported =>
          /\ Len(info.games) = 2
          /\ info.games[1].core_override =
                 (IF NamesCore /\ ~SameAsHeader /\ ~ShlexSplit(Strip(given.launch)).err
                  THEN "a_libretro_android.so" ELSE "")
          /\ info.games[2].core_override = ""
    /\ info.err # "" =>
          /\ ~info.exported /\ info.games = <<>>
          /\ \E i \in 1..Len(g1) : RomsOf(g1[i]) # <<>>

\* A game whose launch override names a core, under a header with another
\* launch block, was parsed and exported with its core override.
C11_Witness ==
    /\ info.exported
    /\ NamesCore
    /\ Truthy(Get(h1, "launch_block"))
    /\ Truthy(Get(g1[1], "launch_block"))
    /\ info.games[1].core_override = "a_libretro_android.so"

\* The keys normalize_launch_block sets besides raw and tokens.
ParsedKeys == {"emulator", "binary", "core", "rom_arg_index"}

\* C12: normalize_launch_block returns a record for every launch text: raw
\* is the text without the blanks around it; for an empty text only raw is
\* set; when the text cannot be split into tokens (a quote is not closed)
\* the token list is empty and none of emulator, binary, core and
\* rom_arg_index is set.
C12_NormalizerAlwaysReturns ==
    info.normalized =>
        LET r == info.launch_info
        IN  /\ "raw" \in r.keys
            /\ r.keys \subseteq {"raw", "tokens"} \cup ParsedKeys
            /\ \E a, b \in {"", " "} : given.launch = a \o r.raw \o b
            /\ r.raw # "" => ~IsSpace(Ch(r.raw, 1)) /\ ~IsSpace(Ch(r.raw, Len(r.raw)))
            /\ r.raw = "" => r.keys = {"raw"}
            /\ (r.raw # "" /\ ShlexSplit(r.raw).err) =>
                   /\ r.keys = {"raw", "tokens"}
                   /\ r.tokens = <<>>

\* C12 witness: a text with blanks around it, an unclosed quote and a core
\* reference was normalized.
C12_Witness ==
    /\ info.normalized
    /\ given.launch # "" /\ IsSpace(Ch(given.launch, 1))
    /\ ShlexSplit(Strip(given.launch)).err
    /\ NamesCore
    /\ HasRomPlaceholder(given.launch)

\* C13: rom_arg_index is set exactly when some token holds a ROM
\* placeholder, and is then the zero-based index of the first such token.
C13_RomIndexIsFirstPlaceholder ==
    info.normalized =>
        LET r    == info.launch_info
            n    == Len(r.tokens)
            hits == {i \in 1..n : HasRomPlaceholder(r.tokens[i])}
            at   == r.rom_arg_index
        IN  /\ "rom_arg_index" \in r.keys <=> hits # {}
            /\ "rom_arg_index" \in r.keys =>
                   /\ 0 <= at /\ at < n
                   /\ at + 1 \in hits
                   /\ \A j \in hits : at + 1 <= j

\* C13 witness: of three tokens the second and the third hold a placeholder.
C13_Witness ==
    /\ info.normalized
    /\ Len(info.launch_info.tokens) = 3
    /\ ~HasRomPlaceholder(info.launch_info.tokens[1])
    /\ HasRomPlaceholder(info.launch_info.tokens[2])
    /\ HasRomPlaceholder(info.launch_info.tokens[3])
    /\ info.launch_info.rom_arg_index = 1

\* C14 (as claimed): two (header, games) pairs that hold the same
\* field-to-value pairs, filled in different insertion orders, are
\* serialized to the same text.
C14_SameContentSameText == (ScratchWritten /\ alt.written) => out = alt.out

\* The asset lines of a block.
AssetLines(block) == SelectSeq(block, LAMBDA l : StartsWith(l, "assets."))

\* The leading directory of a path: its first directory name, "" when the
\* path is a bare file name.
LeadingDir(path) ==
    LET segs == SelectSeq(Split(path, "/"), LAMBDA x : x # "")
    IN  IF Len(segs) >= 2 THEN segs[1] ELSE ""

\* The asset lines the rule asks for: box_front, logo, video in this order,
\* a path under media/ moved to media/<dir>/<file name>, any other unchanged.
RuledAssetLines(game, dir) ==
    LET assets == CollectAssets(game)
        moved(v) == IF StartsWith(v, "media/") THEN "media/" \o dir \o "/" \o Basename(v)
                    ELSE v
        order == <<"box_front", "logo", "video">>
    IN  Flatten([i \in 1..Len(order) |->
                    IF HasSub(assets, order[i])
                    THEN <<"assets." \o order[i] \o ": " \o moved(GetSub(assets, order[i]))>>
                    ELSE <<>>])

\* The game has several ROM paths, the first with a leading directory, and
\* asset paths of its own.
MultiDiscUnderDir(game) ==
    /\ Len(RomsOf(game)) >= 2
    /\ LeadingDir(RomsOf(game)[1]) # ""
    /\ CollectAssets(game) # <<>>

\* C15 (as claimed): for a game of several ROM paths whose first path has a
\* leading directory D, the asset lines written are, in the order box_front,
\* logo, video, media/D/<file name> for an asset path under media/ and the
\* asset path itself otherwise.
C15_AssetsMovedUnderRomDirectory ==
    ScratchWritten =>
        /\ BlocksMatch
        /\ \A k \in 1..Len(Titled(g1)) :
              LET g == Titled(g1)[k]
              IN  MultiDiscUnderDir(g) =>
                      AssetLines(Block(out, k)) = RuledAssetLines(g, LeadingDir(RomsOf(g)[1]))

\* The same, for first paths that are not absolute.
C15_HoldsForRelativePaths ==
    ScratchWritten =>
        /\ BlocksMatch
        /\ \A k \in 1..Len(Titled(g1)) :
              LET g == Titled(g1)[k]
              IN  (MultiDiscUnderDir(g) /\ ~StartsWith(RomsOf(g)[1], "/")) =>
                      AssetLines(Block(out, k)) = RuledAssetLines(g, LeadingDir(RomsOf(g)[1]))

\* C16 (as claimed): a game parsed from a files: block of paths under a
\* shared leading directory D and an assets.box_front: media/D/<name> line is
\* written with an assets.box_front line carrying media/D/<name>, and the
\* game parsed back from that text holds the same path.
C16_AuthoredAssetRoundTrips ==
    /\ ScratchWritten =>
           \E i \in 1..Len(Block(out, 1)) :
               Block(out, 1)[i] = "assets.box_front: " \o given.asset
    /\ pc \in {"compare", "done"} =>
           /\ HasKey(g2[1], "assets.box_front")
           /\ Get(g2[1], "assets.box_front") = Str(given.asset)

\* What the code does instead: the written asset is the default file name
\* under the shared directory, whatever name was authored.
C16_DefaultNameWritten ==
    ScratchWritten =>
        AssetLines(Block(out, 1)) =
            << "assets.box_front: media/" \o given.dir \o "/boxfront.png",
               "assets.logo: media/" \o given.dir \o "/logo.png",
               "assets.video: media/" \o given.dir \o "/video.mp4" >>


\* The run ended by an exception after its scratch file was written.
RaisedAfterDump == pc = "error" /\ scratch

\* C18 (as claimed): a run that created its scratch file has removed it when
\* it ends.
C18_ScratchNeverOutlivesRun == pc = "done" => ~scratch

\* C18 (amended): no run ends by an exception once its scratch file is
\* written; a run that ends has tried to remove the file, and the file is
\* gone unless that removal failed; the failed removal ends the run like
\* the successful one, with the verdict of the comparison.
C18_ScratchRemovedUnlessRemovalFails ==
    /\ ~RaisedAfterDump
    /\ pc = "done" =>
           /\ removal \in {"removed", "failed"}
           /\ scratch <=> removal = "failed"
           /\ ok = (HeaderSame(h1, h2) /\ GamesSame(g1, g2))

C18_Witness == pc = "done" /\ removal = "failed" /\ scratch /\ ok

\* The batch has ended, by its summary or by an exception.
BatchEnded == batch.at \in {"all_ok", "partial", "raised"}

\* C17 (as claimed): when the batch has ended every platform has been
\* verified, and the summary is the partial-failure one exactly when some
\* platform failed the closure check.
C17_EveryPlatformVerified ==
    BatchEnded =>
        /\ Len(batch.verdicts) = Len(batch.files)
        /\ batch.at = (IF \A i \in 1..Len(batch.verdicts) : batch.verdicts[i]
                       THEN "all_ok" ELSE "partial")

\* The same, for batches with no file on which the parser raises.
C17_HoldsWhenNoParseRaises ==
    (BatchEnded /\ \A i \in 1..Len(batch.files) : ~VerifyClosure(batch.files[i]).raised) =>
        /\ Len(batch.verdicts) = Len(batch.files)
        /\ batch.at = (IF \A i \in 1..Len(batch.verdicts) : batch.verdicts[i]
                       THEN "all_ok" ELSE "partial")

\* Run i of the two has ended as it ends alone: by an exception exactly
\* when verify_closure alone raises on its file, and with the same verdict.
EndsAsAlone(i) ==
    LET run   == par.runs[i]
        alone == VerifyClosure(run.src)
    IN  /\ run.pc = "raised" => alone.raised
        /\ run.pc = "done" => (~alone.raised /\ run.ok = alone.ok)

\* C19 (as claimed): two runs on two different source files, their steps
\* interleaved in any way, each end as they end alone.
C19_RunsIndependent == \A i \in 1..Len(par.runs) : EndsAsAlone(i)

\* The same, for two source files in two directories.
C19_HoldsInSeparateDirectories ==
    ~par.same_dir => \A i \in 1..Len(par.runs) : EndsAsAlone(i)

\* Two values are texts that differ at most in the leading indentation of
\* their lines.
SameButIndentation(a, b) ==
    /\ IsStr(a) /\ IsStr(b)
    /\ a.s # "" /\ b.s # ""
    /\ LStripLines(a.s) = LStripLines(b.s)

\* Field f of every game parsed from the source and of every game parsed
\* from the scratch file: when the two differ at most in indentation, the
\* normalized games hold the same text for f.
GameFieldIndentationDropped(f) ==
    \A i \in 1..Len(g1) : \A j \in 1..Len(g2) :
        SameButIndentation(Get(g1[i], f), Get(g2[j], f)) =>
            Get(NormalizeGame(g1[i]), f) = Get(NormalizeGame(g2[j]), f)

HeaderLaunchIndentationDropped ==
    SameButIndentation(Get(h1, "launch_block"), Get(h2, "launch_block")) =>
        Get(NormalizeHeader(h1), "launch_block") = Get(NormalizeHeader(h2), "launch_block")

\* C20 (as claimed): header launch blocks, per-game launch overrides and
\* descriptions that differ only in the leading indentation of their lines
\* are equal after normalization.
C20_IndentationNotCompared ==
    pc = "done" =>
        /\ HeaderLaunchIndentationDropped
        /\ GameFieldIndentationDropped("launch_block")
        /\ GameFieldIndentationDropped("description")

\* The same, for the two launch fields alone.
C20_HoldsForLaunchBlocks ==
    pc = "done" =>
        /\ HeaderLaunchIndentationDropped
        /\ GameFieldIndentationDropped("launch_block")

\* A line the parser reads as a key line: not blank, not a comment, not
\* indented, with a colon; its key and its value.
IsKeyLine(line) ==
    /\ Strip(line) # ""
    /\ ~StartsWith(line, " ")
    /\ ~StartsWith(line, "#")
    /\ Find(line, ":") > 0

KeyOf(line) == Strip(SubSeq(line, 1, Find(line, ":") - 1))

ValueOf(line) == Strip(SubSeq(line, Find(line, ":") + 1, Len(line)))

IsGameLine(line) == IsKeyLine(line) /\ KeyOf(line) = "game"

\* The positions of the game: lines of a text, in increasing order, and the
\* block the k-th of them opens: the lines up to the next game: line or to
\* the end of the text.
GameLinePositions(lines) == Ascending({i \in 1..Len(lines) : IsGameLine(lines[i])})

GameBlock(lines, k) ==
    LET at == GameLinePositions(lines)
    IN  SubSeq(lines, at[k], IF k < Len(at) THEN at[k + 1] - 1 ELSE Len(lines))

\* C21: the parser returns one game per game: line of the source, in source
\* order, and each game is what its own block gives when parsed alone: no
\* line of another block is stored in it.
C21_OneGamePerGameLine ==
    pc = "dump" =>
        LET at == GameLinePositions(src)
        IN  /\ Len(g1) = Len(at)
            /\ \A k \in 1..Len(at) :
                  /\ Get(g1[k], "game") = Str(ValueOf(src[at[k]]))
                  /\ g1[k] = ParsePegasusMetadata(GameBlock(src, k)).games[1]

C21_Witness ==
    /\ pc = "dump"
    /\ Len(g1) = 2
    /\ HasKey(g1[1], "description")
    /\ ~HasKey(g1[2], "description")
    /\ HasKey(g1[2], "launch_block")
    /\ ~HasKey(g1[1], "launch_block")

\* No line of the text held by this value begins with whitespace.
NoIndentedLine(v) ==
    IsStr(v) => \A i \in 1..Len(Split(v.s, "\n")) :
                    LET ln == Split(v.s, "\n")[i]
                    IN  ln = "" \/ ~IsSpace(Ch(ln, 1))

\* C22 (as claimed): no line of a parsed launch block or description begins
\* with whitespace.
C22_ContinuationLinesUnindented ==
    pc = "dump" =>
        /\ NoIndentedLine(Get(h1, "launch_block"))
        /\ \A k \in 1..Len(g1) :
              /\ NoIndentedLine(Get(g1[k], "launch_block"))
              /\ NoIndentedLine(Get(g1[k], "description"))

\* What the code does: only the first line of the block loses its
\* indentation.
C22_FirstLineUnindented ==
    pc = "dump" =>
        \A k \in 1..Len(g1) :
            \A f \in {"launch_block", "description"} :
                LET v == Get(g1[k], f)
                IN  (IsStr(v) /\ v.s # "") => ~IsSpace(Ch(v.s, 1))

\* The lines of a text before its first game: line.
HeaderLines(lines) ==
    LET at == GameLinePositions(lines)
    IN  IF at = <<>> THEN lines ELSE SubSeq(lines, 1, at[1] - 1)

\* The key lines of this key in a block, in order.
KeyLines(block, key) ==
    SelectSeq(block, LAMBDA ln : IsKeyLine(ln) /\ KeyOf(ln) = key)

\* The value on the last key line of this key in the block begins the text
\* stored in the field: a later line of the same key replaces an earlier one.
SeedsText(block, key, d, field) ==
    LET ls == KeyLines(block, key)
    IN  (ls # <<>> /\ ValueOf(ls[Len(ls)]) # "") =>
            /\ IsStr(Get(d, field))
            /\ StartsWith(Get(d, field).s, ValueOf(ls[Len(ls)]))

\* Every value on a key line of this key in the block is an entry of the
\* list stored in the field.
SeedsList(block, key, d, field) ==
    \A i \in 1..Len(KeyLines(block, key)) :
        LET v == ValueOf(KeyLines(block, key)[i])
        IN  v # "" => /\ IsList(Get(d, field))
                      /\ \E j \in 1..Len(Get(d, field).l) : Get(d, field).l[j] = v

\* C23 (as claimed): a non-empty value on the line of a multi-line key is
\* part of what is committed: for files and ignore-files an entry of the
\* list, for launch and description the beginning of the text.
C23_KeyLineValueSeedsBlock ==
    pc = "dump" =>
        /\ SeedsText(HeaderLines(src), "launch", h1, "launch_block")
        /\ SeedsList(HeaderLines(src), "ignore-files", h1, "ignore_files")
        /\ \A k \in 1..Len(g1) :
              /\ SeedsText(GameBlock(src, k), "launch", g1[k], "launch_block")
              /\ SeedsText(GameBlock(src, k), "description", g1[k], "description")
              /\ SeedsList(GameBlock(src, k), "files", g1[k], "roms")

\* The same, for launch and description alone.
C23_HoldsForLaunchAndDescription ==
    pc = "dump" =>
        /\ SeedsText(HeaderLines(src), "launch", h1, "launch_block")
        /\ \A k \in 1..Len(g1) :
              /\ SeedsText(GameBlock(src, k), "launch", g1[k], "launch_block")
              /\ SeedsText(GameBlock(src, k), "description", g1[k], "description")

\* The field names the keys of the format are stored under, in a header
\* or in a game.
RecognizedFields ==
    {"collection", "default_sort_by", "launch_block", "ignore_files", "extensions",
     "extension", "game", "title", "roms", "file", "sort_by", "developer", "year",
     "description", "assets", "launch", "launch_override", "core_override"}

OnlyRecognizedFields(d) ==
    \A i \in 1..Len(d) : d[i].k \in RecognizedFields \/ StartsWith(d[i].k, "assets.")

\* C24 (as claimed): a key line whose key the format does not know stores
\* nothing: every field of the parsed header and games is one of the
\* format's own.
C24_UnknownKeyStoresNothing ==
    pc = "dump" =>
        /\ OnlyRecognizedFields(h1)
        /\ \A k \in 1..Len(g1) : OnlyRecognizedFields(g1[k])

\* What the code does: every key line of the header whose key is not
\* handled on its own is stored under its name, hyphens turned to underscores.
C24_EveryHeaderKeyStored ==
    pc = "dump" =>
        \A i \in 1..Len(HeaderLines(src)) :
            LET ln == HeaderLines(src)[i]
            IN  (IsKeyLine(ln) /\ KeyOf(ln) \notin (MultiLineKeys \cup {"file", "sort-by"})) =>
                    HasKey(h1, Replace(KeyOf(ln), "-", "_"))

\* The ROM paths a block of source lines names, in source order: the
\* non-empty values of its file: lines and the non-empty lines of its files:
\* blocks; in_files tells whether a files: block is open.
RECURSIVE NamedRoms(_, _)
NamedRoms(lines, in_files) ==
    IF lines = <<>> THEN <<>>
    ELSE LET ln == lines[1]
         IN  IF Strip(ln) = "" \/ StartsWith(ln, "#") THEN NamedRoms(Tail(lines), in_files)
             ELSE IF StartsWith(ln, " ")
             THEN (IF in_files THEN <<Strip(ln)>> ELSE <<>>) \o NamedRoms(Tail(lines), in_files)
             ELSE (IF IsKeyLine(ln) /\ KeyOf(ln) = "file" /\ ValueOf(ln) # ""
                   THEN <<ValueOf(ln)>> ELSE <<>>)
                  \o NamedRoms(Tail(lines), IsKeyLine(ln) /\ KeyOf(ln) = "files")

\* A line of a block that is indented and begins with # after its indentation.
HasIndentedHashLine(lines) ==
    \E i \in 1..Len(lines) : StartsWith(lines[i], " ") /\ StartsWith(LStrip(lines[i]), "#")

\* C25 (as claimed): the roms of every parsed game are the paths its block
\* names, in source order, duplicates kept; file: lines of the header add
\* nothing.
C25_RomsAreTheNamedPaths ==
    pc = "dump" =>
        \A k \in 1..Len(g1) : RomsOf(g1[k]) = NamedRoms(GameBlock(src, k), FALSE)

\* The same, for blocks without an indented line that begins with #.
C25_HoldsWithoutHashLines ==
    pc = "dump" =>
        \A k \in 1..Len(g1) :
            ~HasIndentedHashLine(GameBlock(src, k)) =>
                RomsOf(g1[k]) = NamedRoms(GameBlock(src, k), FALSE)

\* The local variables of the parser after these lines, before the end of
\* the input.
RECURSIVE AfterLines(_, _)
AfterLines(c, lines) ==
    IF lines = <<>> \/ c.err # "" THEN c
    ELSE AfterLines(ParseLineStep(c, lines[1]), Tail(lines))

\* The lines of the text without the inserted line that correspond to the
\* lines of the source read so far.
BaseRead ==
    SubSeq(given.base, 1, IF pos > given.at THEN pos - 2 ELSE pos - 1)

\* The parse of the source goes as the parse of the text without the
\* inserted line: the same local variables after every line, the active
\* multi-line key and its buffer among them, and the same (header, games).
InsertedLineChangesNothing ==
    /\ pc = "parse1" => parser = AfterLines(ParserStart, BaseRead)
    /\ pc = "dump" =>
           /\ h1 = ParsePegasusMetadata(given.base).header
           /\ g1 = ParsePegasusMetadata(given.base).games

\* C26: a blank line inserted anywhere leaves the active multi-line key and
\* its buffer untouched and does not change the (header, games) returned.
C26_BlankLineChangesNothing ==
    Strip(given.line) = "" => InsertedLineChangesNothing

\* C26 witness: the parser has just read a blank line inside an open block.
C26_Witness ==
    /\ pc = "parse1"
    /\ Strip(given.line) = ""
    /\ pos = given.at + 1
    /\ parser.current_key \in MultiLineKeys
    /\ Len(parser.buf) >= 2

\* C27 (as claimed): a line that starts with # or with // inserted anywhere
\* does not change the parse: it ends no open block and adds no field.
C27_CommentLineChangesNothing ==
    (StartsWith(given.line, "#") \/ StartsWith(given.line, "//")) =>
        InsertedLineChangesNothing

\* The same, for lines that start with #.
C27_HoldsForHashLines ==
    StartsWith(given.line, "#") => InsertedLineChangesNothing

\* C28: the text written from a parse is a fixed point of regeneration; once
\* the written text has been parsed again, writing that second parse gives
\* the same lines as the written text.
C28_CanonicalTextIsFixedPoint ==
    pc \in {"compare", "done"} =>
        FileLines(DumpPegasusMetadata(h2, g2)) = out

\* The fixed point holds when no parsed launch block or description has an
\* indented line and no written line is an indented line that begins with #.
C28_HoldsWithoutIndentedLines ==
    (/\ pc \in {"compare", "done"}
     /\ NoIndentedLine(Get(h1, "launch_block"))
     /\ \A k \in 1..Len(g1) : /\ NoIndentedLine(Get(g1[k], "launch_block"))
                               /\ NoIndentedLine(Get(g1[k], "description"))
     /\ ~HasIndentedHashLine(out)) =>
        FileLines(DumpPegasusMetadata(h2, g2)) = out

\* The header that the lines before the first game: line give by themselves.
HeaderAlone(lines) == FlushMultiline(AfterLines(ParserStart, HeaderLines(lines))).header

\* A game: line is among the lines of the input read so far.
GameLineRead == \E i \in 1..(pos - 1) : i <= Len(Input) /\ IsGameLine(Input[i])

\* C29: once a game: line has been read the parser is in the game state for
\* the rest of the parse and its header stays what the lines before that
\* game: line give by themselves, a block pending at the game: line included;
\* the header returned is that of the header lines parsed alone, and every
\* game is that of its own block parsed alone.
C29_HeaderFixedAtFirstGame ==
    /\ (pc \in {"parse1", "parse2"} /\ GameLineRead) =>
           /\ ~parser.in_header
           /\ parser.header = HeaderAlone(Input)
    /\ (pc = "dump" /\ g1 # <<>>) =>
           /\ h1 = ParsePegasusMetadata(HeaderLines(src)).header
           /\ \A k \in 1..Len(g1) :
                  g1[k] = ParsePegasusMetadata(GameBlock(src, k)).games[1]

\* A parse is over whose header ended in a pending ignore-files block and
\* has no sort key, and whose game has a sort-by line of its own.
C29_Witness ==
    /\ pc = "dump"
    /\ HeaderLines(src) # <<>>
    /\ StartsWith(HeaderLines(src)[Len(HeaderLines(src))], " ")
    /\ Get(h1, "ignore_files") = Lst(<<"x", "y">>)
    /\ Get(h1, "default_sort_by") = NoneV
    /\ \E k \in 1..Len(g1) : Get(g1[k], "sort_by") = Str("2")

\* The parse of the file before the calls of upsert_game, and of the file now.
BeforeCalls == ParsePegasusMetadata(edit.before)

AfterCalls == ParsePegasusMetadata(src)

\* The header and the games that no call matched parse as before the calls,
\* and every game of before is still in the file.
OnlyTargetsChanged ==
    /\ AfterCalls.err = ""
    /\ AfterCalls.header = BeforeCalls.header
    /\ Len(AfterCalls.games) >= Len(BeforeCalls.games)
    /\ \A i \in 1..Len(BeforeCalls.games) :
           i \notin edit.matched => AfterCalls.games[i] = BeforeCalls.games[i]

\* C30 (as claimed): after any sequence of calls of upsert_game on a file
\* the header and every game that no call matched parse to the same fields
\* as before the calls, and no game of before is missing.
C30_UpsertChangesOnlyItsTarget ==
    (edit.at = "idle" /\ edit.calls # <<>>) => OnlyTargetsChanged

\* The same holds for the files that parse to what is parsed from the text
\* written from their parse, when no call gives an empty title.
C30_HoldsWhenFileRoundTrips ==
    (/\ edit.at = "idle"
     /\ edit.calls # <<>>
     /\ \A c \in 1..Len(edit.calls) : edit.calls[c].title # Str("")
     /\ LET again == ParsePegasusMetadata(FileLines(DumpPegasusMetadata(BeforeCalls.header,
                                                                       BeforeCalls.games)))
        IN  again.header = BeforeCalls.header /\ again.games = BeforeCalls.games) =>
        OnlyTargetsChanged

====
